---- MODULE Spec2Model ----
(***************************************************************************)
(* LogAnalyzer: the detection engine (EventDetector) and the data it works *)
(* on.  Timestamps are whole seconds since the epoch (the parser produces  *)
(* them with from_time_t); strings are sequences of byte values, so that   *)
(* std::map's and std::set's key order (byte-wise lexicographic) can be    *)
(* computed.                                                               *)
(***************************************************************************)
EXTENDS Integers, Sequences, FiniteSets, TLC

VARIABLES
    detector,       \* the EventDetector's four configuration members
    utc_offset,     \* the environment's local time zone, seconds east of UTC
    sort_ties,      \* how this build's std::sort leaves records of equal timestamp
    entries,        \* std::vector<LogEntry> handed to the detector
    pc,             \* the caller's position ("load", "done", main's steps)
    failed_logins,  \* detectAll's local: result of detectMultipleFailedLogins
    outside_hours,  \* detectAll's local: result of detectLoginsOutsideBusinessHours
    multiple_ips,   \* detectAll's local: result of detectMultipleIPAddresses
    all_events,     \* detectAll's return value
    frame,          \* locals of the detector loop that is running, step by step
    config_manager, \* the ConfigManager: config_ and help_requested_
    call,           \* the latest call of a ConfigManager method: arguments, locals, result
    argv,           \* main's command line, argv[1] .. argv[argc - 1]
    log_file,       \* the lines std::getline has taken from the log file so far
    line,           \* the line handed to LogParser::parseLogLine
    entry_opt,      \* what parseLogLine returned for it
    line_number,    \* main's counter of lines read
    invalid_entries,\* main's counter of lines parseLogLine rejected
    exit_code,      \* main's return value
    now,            \* std::chrono::system_clock::now(), in seconds
    output,         \* what has been written to generateReport's std::ostream
    directories,    \* the directories that exist
    files           \* the files that exist: path |-> content

\* the detection engine and its caller
detect_vars == <<detector, utc_offset, sort_ties, entries, pc,
                 failed_logins, outside_hours, multiple_ips, all_events>>

\* the ConfigManager and its caller
config_vars == <<config_manager, call>>

\* main's locals besides log_entries
main_vars == <<argv, log_file, line, entry_opt, line_number, invalid_entries,
               exit_code>>

\* the ReportGenerator's surroundings: clock, stream and file system
report_vars == <<now, output, directories, files>>

vars == <<detect_vars, frame, config_vars, main_vars, report_vars>>

----------------------------------------------------------------------------
(* Bounds of the model *)

\* longest input vector of the general specification
MaxEntries == 3

\* longest input vector of the burst specification
MaxBurst == 7

\* last minute offset of the burst specification's time grid
MaxMinute == 11

\* longest input vector of the business-hours specification
MaxHourEntries == 3

\* longest input vector of the multiple-address specification
MaxLogins == 3

----------------------------------------------------------------------------
(* Data model *)

\* enum class LoginStatus
LoginStatus == {"SUCCESS", "FAILED", "UNKNOWN"}

\* enum class SuspiciousEventType
SuspiciousEventType ==
    {"MULTIPLE_FAILED_LOGINS", "LOGIN_OUTSIDE_BUSINESS_HOURS", "MULTIPLE_IP_ADDRESSES"}

\* struct LogEntry, parameterized constructor
LogEntry(ts, user, ip, stat) ==
    [timestamp |-> ts, username |-> user, ip_address |-> ip, status |-> stat]

\* struct SuspiciousEvent, parameterized constructor: ip_addresses({ip});
\* the description is kept as the tuple of the values the text is built from
SuspiciousEvent(evt_type, user, ip, first_time, last_time, count) ==
    [type |-> evt_type, username |-> user, ip_addresses |-> <<ip>>,
     first_occurrence |-> first_time, last_occurrence |-> last_time,
     event_count |-> count, description |-> <<>>]

\* mutant: the order of the keys reversed
RECURSIVE StrGreater(_, _)
StrGreater(a, b) ==
    IF a = <<>> THEN FALSE
    ELSE IF b = <<>> THEN TRUE
    ELSE IF Head(a) # Head(b) THEN Head(a) > Head(b)
    ELSE StrGreater(Tail(a), Tail(b))

\* std::string operator< : byte-wise lexicographic order
RECURSIVE StrLess(_, _)
StrLess(a, b) ==
    IF b = <<>> THEN FALSE
    ELSE IF a = <<>> THEN TRUE
    ELSE IF Head(a) # Head(b) THEN Head(a) < Head(b)
    ELSE StrLess(Tail(a), Tail(b))

\* the elements of a set of strings in ascending order: the iteration order
\* of std::map keys and of std::set<std::string>
RECURSIVE InOrder(_)
InOrder(S) ==
    IF S = {} THEN <<>>
    ELSE LET m == CHOOSE x \in S : \A y \in S \ {x} : StrLess(x, y)
         IN  <<m>> \o InOrder(S \ {m})

----------------------------------------------------------------------------
(* EventDetector: private helpers *)

\* seconds in one std::chrono::minutes tick
SecondsPerMinute == 60

\* seconds in one hour, hours in one day (std::localtime's tm_hour)
SecondsPerHour == 3600
SecondsPerDay == 86400
HoursPerDay == 24

\* mutant: the difference rounded to the nearest minute instead of truncated
isWithinTimeWindowRounded(time1, time2) ==
    LET duration == IF time1 > time2 THEN time1 - time2 ELSE time2 - time1
        minutes  == (duration + 30) \div SecondsPerMinute
    IN  minutes <= detector.time_window_minutes

\* mutant: the boundary excluded (minutes.count() < time_window_minutes_)
isWithinTimeWindowStrict(time1, time2) ==
    LET duration == IF time1 > time2 THEN time1 - time2 ELSE time2 - time1
        minutes  == duration \div SecondsPerMinute
    IN  minutes < detector.time_window_minutes

\* EventDetector::isWithinTimeWindow
isWithinTimeWindow(time1, time2) ==
    LET duration == IF time1 > time2 THEN time1 - time2 ELSE time2 - time1
        minutes  == duration \div SecondsPerMinute
    IN  minutes <= detector.time_window_minutes

\* EventDetector::getHourOfDay
getHourOfDay(timestamp) ==
    ((timestamp + utc_offset) \div SecondsPerHour) % HoursPerDay

----------------------------------------------------------------------------
(* std::sort by timestamp.  The comparator orders by timestamp only and    *)
(* std::sort is not stable: records of equal timestamp end in an order the *)
(* library chooses.  sort_ties names that choice.                          *)

\* v with x inserted after every element whose timestamp is <= x's
RECURSIVE InsertAfterEqual(_, _)
InsertAfterEqual(v, x) ==
    IF v = <<>> THEN <<x>>
    ELSE IF x.timestamp < Head(v).timestamp THEN <<x>> \o v
    ELSE <<Head(v)>> \o InsertAfterEqual(Tail(v), x)

\* v with x inserted before every element whose timestamp is >= x's
RECURSIVE InsertBeforeEqual(_, _)
InsertBeforeEqual(v, x) ==
    IF v = <<>> THEN <<x>>
    ELSE IF Head(v).timestamp < x.timestamp
         THEN <<Head(v)>> \o InsertBeforeEqual(Tail(v), x)
    ELSE <<x>> \o v

RECURSIVE SortFrom(_, _)
SortFrom(v, acc) ==
    IF v = <<>> THEN acc
    ELSE SortFrom(Tail(v),
                  IF sort_ties = "stable" THEN InsertAfterEqual(acc, Head(v))
                  ELSE InsertBeforeEqual(acc, Head(v)))

\* mutant: the vector left in input order
SortByTimestampSkipped(v) == v

\* std::sort(begin, end, [](a, b) { return a.timestamp < b.timestamp; })
SortByTimestamp(v) == SortFrom(v, <<>>)

----------------------------------------------------------------------------
(* EventDetector::detectMultipleFailedLogins *)

\* the std::map key an entry is filed under: failed_logins_by_user[entry.username]
FailedGroupKey(entry) == entry.username

\* Step 1: the map's keys, and the vector filed under one key (input order)
FailedUsers(v) ==
    {FailedGroupKey(v[k]) : k \in {n \in 1..Len(v) : v[n].status = "FAILED"}}

\* mutant: every record that is not a success is taken for a failure
FailedLoginsByUserNotSuccess(v, username) ==
    SelectSeq(v, LAMBDA e : e.status # "SUCCESS" /\ FailedGroupKey(e) = username)

FailedLoginsByUser(v, username) ==
    SelectSeq(v, LAMBDA e : e.status = "FAILED" /\ FailedGroupKey(e) = username)

\* the inner for loop over j: w is [count, window_end_idx] so far
RECURSIVE ScanFailedWindow(_, _, _, _)
ScanFailedWindow(logins, i, j, w) ==
    IF j > Len(logins) THEN w
    ELSE IF isWithinTimeWindow(logins[i].timestamp, logins[j].timestamp)
         THEN ScanFailedWindow(logins, i, j + 1,
                               [count |-> w.count + 1, window_end_idx |-> j])
    ELSE w  \* break

\* mutant: one record less than the threshold is enough
MeetsThresholdBelow(count) == count >= detector.failed_login_threshold - 1

\* Step 4's test: count >= failed_login_threshold_
MeetsThreshold(count) == count >= detector.failed_login_threshold

\* mutant: no skip after a finding (the anchor only advances by one)
SkipToClusterEndNone(i, window_end_idx) == i

\* mutant: the anchor set back by one after a finding, so that ++i restores it
SkipToClusterEndBack(i, window_end_idx) == i - 1

\* mutant: the anchor set one past the cluster's last record, so that ++i
\* skips the record after the cluster
SkipToClusterEndBeyond(i, window_end_idx) == window_end_idx + 1

\* "i = window_end_idx": the anchor after a finding (the loop's ++i follows)
SkipToClusterEnd(i, window_end_idx) == window_end_idx

\* mutant: window_start.timestamp passed for both ends of the span
FailedLoginEventStartOnly(username, window_start, window_end, count) ==
    [SuspiciousEvent("MULTIPLE_FAILED_LOGINS", username, window_start.ip_address,
                     window_start.timestamp, window_start.timestamp, count)
        EXCEPT !.description = <<username, count, detector.time_window_minutes>>]

\* the event Step 4 builds
FailedLoginEvent(username, window_start, window_end, count) ==
    [SuspiciousEvent("MULTIPLE_FAILED_LOGINS", username, window_start.ip_address,
                     window_start.timestamp, window_end.timestamp, count)
        EXCEPT !.description = <<username, count, detector.time_window_minutes>>]

\* Step 3: the outer for loop over the anchor i (1-based here)
RECURSIVE ScanFailedLogins(_, _, _, _)
ScanFailedLogins(username, logins, i, detected_events) ==
    IF i > Len(logins) THEN detected_events
    ELSE LET w == ScanFailedWindow(logins, i, i + 1,
                                   [count |-> 1, window_end_idx |-> i])
         IN  IF MeetsThreshold(w.count)
             THEN ScanFailedLogins(username, logins,
                      SkipToClusterEnd(i, w.window_end_idx) + 1,
                      Append(detected_events,
                             FailedLoginEvent(username, logins[i],
                                              logins[w.window_end_idx], w.count)))
             ELSE ScanFailedLogins(username, logins, i + 1, detected_events)

\* Step 2: the loop over the map, in key order
RECURSIVE FailedLoginsOfUsers(_, _, _)
FailedLoginsOfUsers(v, users, detected_events) ==
    IF users = <<>> THEN detected_events
    ELSE FailedLoginsOfUsers(v, Tail(users),
             ScanFailedLogins(Head(users),
                              SortByTimestamp(FailedLoginsByUser(v, Head(users))),
                              1, detected_events))

detectMultipleFailedLogins(v) ==
    FailedLoginsOfUsers(v, InOrder(FailedUsers(v)), <<>>)

----------------------------------------------------------------------------
(* EventDetector::detectLoginsOutsideBusinessHours *)

\* mutant: the closing hour itself taken for a business hour
IsOutsideHoursAfterEnd(hour) ==
    hour < detector.business_hour_start \/ hour > detector.business_hour_end

\* outside_hours = (hour < business_hour_start_ || hour >= business_hour_end_)
IsOutsideHours(hour) ==
    hour < detector.business_hour_start \/ hour >= detector.business_hour_end

OutsideHoursEvent(entry, hour) ==
    [SuspiciousEvent("LOGIN_OUTSIDE_BUSINESS_HOURS", entry.username,
                     entry.ip_address, entry.timestamp, entry.timestamp, 1)
        EXCEPT !.description = <<entry.username, hour,
                                 detector.business_hour_start,
                                 detector.business_hour_end>>]

RECURSIVE ScanOutsideHours(_, _)
ScanOutsideHours(v, detected_events) ==
    IF v = <<>> THEN detected_events
    ELSE LET entry == Head(v)
             hour  == getHourOfDay(entry.timestamp)
         IN  IF entry.status # "SUCCESS"
             THEN ScanOutsideHours(Tail(v), detected_events)  \* continue
             ELSE IF IsOutsideHours(hour)
                  THEN ScanOutsideHours(Tail(v),
                           Append(detected_events, OutsideHoursEvent(entry, hour)))
             ELSE ScanOutsideHours(Tail(v), detected_events)

\* mutant: detected_events created with one element instead of empty
detectLoginsOutsideBusinessHoursSeeded(v) ==
    ScanOutsideHours(v, <<OutsideHoursEvent(LogEntry(0, <<>>, <<>>, "SUCCESS"), 0)>>)

detectLoginsOutsideBusinessHours(v) == ScanOutsideHours(v, <<>>)

----------------------------------------------------------------------------
(* EventDetector::detectMultipleIPAddresses *)

\* mutant: usernames grouped without regard to case
RECURSIVE ToLower(_)
ToLower(str) ==
    IF str = <<>> THEN <<>>
    ELSE <<IF Head(str) \in 65..90 THEN Head(str) + 32 ELSE Head(str)>>
         \o ToLower(Tail(str))

LoginGroupKeyFolded(entry) == ToLower(entry.username)

\* the std::map key an entry is filed under: logins_by_user[entry.username]
LoginGroupKey(entry) == entry.username

LoginUsers(v) ==
    {LoginGroupKey(v[k]) : k \in {n \in 1..Len(v) : v[n].status = "SUCCESS"}}

LoginsByUser(v, username) ==
    SelectSeq(v, LAMBDA e : e.status = "SUCCESS" /\ LoginGroupKey(e) = username)

\* the inner for loop over j: w is [ip_addresses, window_end_idx] so far
RECURSIVE ScanIPWindow(_, _, _, _)
ScanIPWindow(logins, i, j, w) ==
    IF j > Len(logins) THEN w
    ELSE IF isWithinTimeWindow(logins[i].timestamp, logins[j].timestamp)
         THEN ScanIPWindow(logins, i, j + 1,
                  [ip_addresses   |-> w.ip_addresses \cup {logins[j].ip_address},
                   window_end_idx |-> j])
    ELSE w  \* break

\* mutant: more than two addresses required
HasMoreThanTwoIPs(ip_addresses) == Cardinality(ip_addresses) > 2

\* Step 4's test: ip_addresses.size() >= 2
MinDistinctIPs == 2
HasMultipleIPs(ip_addresses) == Cardinality(ip_addresses) >= MinDistinctIPs

\* mutant: no skip after a finding
SkipToWindowEndNone(i, window_end_idx) == i

\* "i = window_end_idx": the anchor after a finding (the loop's ++i follows)
SkipToWindowEnd(i, window_end_idx) == window_end_idx

\* event_count: static_cast<int>(ip_addresses.size())
DistinctIPCount(ip_addresses) == Cardinality(ip_addresses)

\* event.ip_addresses: cleared, then filled by iterating the std::set
IPAddressList(ip_addresses) == InOrder(ip_addresses)

\* mutant: event.ip_addresses.clear() missing, the constructor's "" stays first
MultipleIPEventNoClear(username, window_start, window_end, ip_addresses) ==
    [SuspiciousEvent("MULTIPLE_IP_ADDRESSES", username, <<>>,
                     window_start.timestamp, window_end.timestamp,
                     Cardinality(ip_addresses))
        EXCEPT !.ip_addresses = <<(<<>>)>> \o InOrder(ip_addresses),
               !.description  = <<username, Cardinality(ip_addresses),
                                  detector.time_window_minutes>>]

MultipleIPEvent(username, window_start, window_end, ip_addresses) ==
    [SuspiciousEvent("MULTIPLE_IP_ADDRESSES", username, <<>>,
                     window_start.timestamp, window_end.timestamp,
                     DistinctIPCount(ip_addresses))
        EXCEPT !.ip_addresses = IPAddressList(ip_addresses),
               !.description  = <<username, Cardinality(ip_addresses),
                                  detector.time_window_minutes>>]

RECURSIVE ScanLogins(_, _, _, _)
ScanLogins(username, logins, i, detected_events) ==
    IF i > Len(logins) THEN detected_events
    ELSE LET w == ScanIPWindow(logins, i, i + 1,
                      [ip_addresses   |-> {logins[i].ip_address},
                       window_end_idx |-> i])
         IN  IF HasMultipleIPs(w.ip_addresses)
             THEN ScanLogins(username, logins,
                      SkipToWindowEnd(i, w.window_end_idx) + 1,
                      Append(detected_events,
                             MultipleIPEvent(username, logins[i],
                                             logins[w.window_end_idx],
                                             w.ip_addresses)))
             ELSE ScanLogins(username, logins, i + 1, detected_events)

RECURSIVE MultipleIPsOfUsers(_, _, _)
MultipleIPsOfUsers(v, users, detected_events) ==
    IF users = <<>> THEN detected_events
    ELSE MultipleIPsOfUsers(v, Tail(users),
             ScanLogins(Head(users),
                        SortByTimestamp(LoginsByUser(v, Head(users))),
                        1, detected_events))

detectMultipleIPAddresses(v) ==
    MultipleIPsOfUsers(v, InOrder(LoginUsers(v)), <<>>)

----------------------------------------------------------------------------
(* EventDetector::detectAll *)

\* mutant: the after-hours findings inserted first
CombineResultsHoursFirst(failed, outside, multiple) == outside \o failed \o multiple

\* all_events after the three insert(end, ...) calls
CombineResults(failed, outside, multiple) == failed \o outside \o multiple

detectAll(v) ==
    CombineResults(detectMultipleFailedLogins(v),
                   detectLoginsOutsideBusinessHours(v),
                   detectMultipleIPAddresses(v))

\* std::nullopt and an optional that holds a value
nullopt == [has_value |-> FALSE]
Optional(v) == [has_value |-> TRUE, value |-> v]

----------------------------------------------------------------------------
(* Configuration and ConfigManager *)

\* struct Configuration
Configuration(threshold, window, hour_start, hour_end, log_path, report_path) ==
    [failed_login_threshold |-> threshold, time_window_minutes |-> window,
     business_hour_start |-> hour_start, business_hour_end |-> hour_end,
     log_file_path |-> log_path, report_output_path |-> report_path]

\* "logs/sample.log"
DefaultLogFilePath ==
    <<108, 111, 103, 115, 47, 115, 97, 109, 112, 108, 101, 46, 108, 111, 103>>

\* "reports/report.txt"
DefaultReportOutputPath ==
    <<114, 101, 112, 111, 114, 116, 115, 47, 114, 101, 112, 111, 114, 116,
      46, 116, 120, 116>>

\* Configuration::Configuration()
DefaultConfiguration ==
    Configuration(5, 10, 8, 18, DefaultLogFilePath, DefaultReportOutputPath)

\* ConfigManager::ConfigManager()
ConfigManager == [config_ |-> DefaultConfiguration, help_requested_ |-> FALSE]

\* the last hour that business_hour_start and business_hour_end may name
LastHour == 23

\* mutant: start == end accepted
validateConfigurationEqualHours(config_) ==
    IF config_.failed_login_threshold <= 0 THEN FALSE
    ELSE IF config_.time_window_minutes <= 0 THEN FALSE
    ELSE IF config_.business_hour_start < 0
            \/ config_.business_hour_start > LastHour THEN FALSE
    ELSE IF config_.business_hour_end < 0
            \/ config_.business_hour_end > LastHour THEN FALSE
    ELSE IF config_.business_hour_start > config_.business_hour_end THEN FALSE
    ELSE IF config_.log_file_path = <<>> THEN FALSE
    ELSE IF config_.report_output_path = <<>> THEN FALSE
    ELSE TRUE

\* mutant: business_hour_end may be 24
validateConfigurationEndOfDay(config_) ==
    IF config_.failed_login_threshold <= 0 THEN FALSE
    ELSE IF config_.time_window_minutes <= 0 THEN FALSE
    ELSE IF config_.business_hour_start < 0
            \/ config_.business_hour_start > LastHour THEN FALSE
    ELSE IF config_.business_hour_end < 0
            \/ config_.business_hour_end > LastHour + 1 THEN FALSE
    ELSE IF config_.business_hour_start >= config_.business_hour_end THEN FALSE
    ELSE IF config_.log_file_path = <<>> THEN FALSE
    ELSE IF config_.report_output_path = <<>> THEN FALSE
    ELSE TRUE

\* ConfigManager::validateConfiguration, on the manager's config_
validateConfiguration(config_) ==
    IF config_.failed_login_threshold <= 0 THEN FALSE
    ELSE IF config_.time_window_minutes <= 0 THEN FALSE
    ELSE IF config_.business_hour_start < 0
            \/ config_.business_hour_start > LastHour THEN FALSE
    ELSE IF config_.business_hour_end < 0
            \/ config_.business_hour_end > LastHour THEN FALSE
    ELSE IF config_.business_hour_start >= config_.business_hour_end THEN FALSE
    ELSE IF config_.log_file_path = <<>> THEN FALSE
    ELSE IF config_.report_output_path = <<>> THEN FALSE
    ELSE TRUE

\* mutant: the previous configuration is not restored
setConfigurationNoRestore(manager, config) ==
    [config_manager |-> [manager EXCEPT !.config_ = config],
     temp           |-> manager.config_,
     returned       |-> validateConfiguration(config)]

\* ConfigManager::setConfiguration: the manager afterwards, the local temp
\* and the return value
setConfiguration(manager, config) ==
    LET temp == manager.config_
        set  == [manager EXCEPT !.config_ = config]
    IN  IF ~validateConfiguration(set.config_)
        THEN [config_manager |-> [set EXCEPT !.config_ = temp],
              temp |-> temp, returned |-> FALSE]
        ELSE [config_manager |-> set, temp |-> temp, returned |-> TRUE]

\* '-' and the digits '0'..'9'
Minus == 45
Digit0 == 48
Digit9 == 57

\* std::isdigit
IsDigit(ch) == ch >= Digit0 /\ ch <= Digit9

\* the range of int
IntMax == 2147483647
IntMin == -IntMax - 1

\* iss >> value for a string of digits after an optional '-': the value, or
\* overflow once it leaves the range of int
RECURSIVE ExtractInt(_, _, _, _)
ExtractInt(str, k, negative, acc) ==
    IF k > Len(str) THEN [fail |-> FALSE, value |-> acc]
    ELSE LET d == str[k] - Digit0
         IN  IF negative
             THEN IF acc < (IntMin + d + 9) \div 10
                  THEN [fail |-> TRUE, value |-> IntMin]
                  ELSE ExtractInt(str, k + 1, negative, acc * 10 - d)
             ELSE IF acc > (IntMax - d) \div 10
                  THEN [fail |-> TRUE, value |-> IntMax]
                  ELSE ExtractInt(str, k + 1, negative, acc * 10 + d)

\* the length of the longest prefix of str from position k on made of digits
RECURSIVE DigitRun(_, _)
DigitRun(str, k) ==
    IF k > Len(str) \/ ~IsDigit(str[k]) THEN 0 ELSE 1 + DigitRun(str, k + 1)

\* mutant: the characters are not checked, the leading digits are converted
parseIntegerPrefix(str) ==
    IF str = <<>> \/ DigitRun(str, 1) = 0 THEN [ok |-> FALSE, value |-> 0]
    ELSE [ok |-> TRUE,
          value |-> ExtractInt(SubSeq(str, 1, DigitRun(str, 1)), 1, FALSE, 0).value]

\* ConfigManager::parseInteger: whether it succeeded, and the value
parseInteger(str) ==
    IF str = <<>> THEN [ok |-> FALSE, value |-> 0]
    ELSE LET start_pos == IF str[1] = Minus THEN 2 ELSE 1
         IN  IF str[1] = Minus /\ Len(str) = 1 THEN [ok |-> FALSE, value |-> 0]
             ELSE IF \E k \in start_pos..Len(str) : ~IsDigit(str[k])
             THEN [ok |-> FALSE, value |-> 0]
             ELSE LET iss == ExtractInt(str, start_pos, str[1] = Minus, 0)
                  IN  IF iss.fail THEN [ok |-> FALSE, value |-> iss.value]
                      ELSE [ok |-> TRUE, value |-> iss.value]

\* hours_str.find('-'): the first position of a dash, 0 for npos
Find(str, ch) ==
    IF \E k \in 1..Len(str) : str[k] = ch
    THEN CHOOSE k \in 1..Len(str) :
            str[k] = ch /\ \A m \in 1..(k - 1) : str[m] # ch
    ELSE 0

\* ConfigManager::parseBusinessHours: whether it succeeded, start and end
parseBusinessHours(hours_str) ==
    LET dash_pos == Find(hours_str, Minus)
    IN  IF dash_pos = 0 THEN [ok |-> FALSE, start |-> 0, end |-> 0]
        ELSE LET start_str == SubSeq(hours_str, 1, dash_pos - 1)
                 end_str   == SubSeq(hours_str, dash_pos + 1, Len(hours_str))
                 s == parseInteger(start_str)
                 e == parseInteger(end_str)
             IN  IF ~s.ok THEN [ok |-> FALSE, start |-> s.value, end |-> 0]
                 ELSE IF ~e.ok THEN [ok |-> FALSE, start |-> s.value, end |-> e.value]
                 ELSE IF s.value < 0 \/ s.value > LastHour
                         \/ e.value < 0 \/ e.value > LastHour
                 THEN [ok |-> FALSE, start |-> s.value, end |-> e.value]
                 ELSE IF s.value >= e.value
                 THEN [ok |-> FALSE, start |-> s.value, end |-> e.value]
                 ELSE [ok |-> TRUE, start |-> s.value, end |-> e.value]

\* the options parseCommandLineArgs knows, long and short
OptHelp      == {<<45, 45, 104, 101, 108, 112>>, <<45, 104>>}
OptInput     == {<<45, 45, 105, 110, 112, 117, 116>>, <<45, 105>>}
OptOutput    == {<<45, 45, 111, 117, 116, 112, 117, 116>>, <<45, 111>>}
OptThreshold == {<<45, 45, 116, 104, 114, 101, 115, 104, 111, 108, 100>>,
                 <<45, 116>>}
OptWindow    == {<<45, 45, 119, 105, 110, 100, 111, 119>>, <<45, 119>>}
OptHours     == {<<45, 45, 104, 111, 117, 114, 115>>}

\* mutant: the configuration is not validated after the loop
ValidateAfterParsingSkipped(config_, help_requested_) ==
    [config_manager |-> [config_ |-> config_, help_requested_ |-> help_requested_],
     returned |-> TRUE]

\* parseCommandLineArgs after the loop: validate unless help was requested
ValidateAfterParsing(config_, help_requested_) ==
    [config_manager |-> [config_ |-> config_, help_requested_ |-> help_requested_],
     returned |-> ~(~help_requested_ /\ ~validateConfiguration(config_))]

\* a return from inside the loop: config_ stays as the loop left it
ReturnFromLoop(config_, help_requested_, value) ==
    [config_manager |-> [config_ |-> config_, help_requested_ |-> help_requested_],
     returned |-> value]

\* parseCommandLineArgs: the loop over the arguments, i being the 1-based
\* position in args = argv[1..argc-1]
RECURSIVE ParseArgs(_, _, _)
ParseArgs(args, i, config_) ==
    IF i > Len(args) THEN ValidateAfterParsing(config_, FALSE)
    ELSE LET arg     == args[i]
             missing == i + 1 > Len(args)
         IN  IF arg \in OptHelp THEN ReturnFromLoop(config_, TRUE, TRUE)
             ELSE IF arg \in OptInput
             THEN IF missing THEN ReturnFromLoop(config_, FALSE, FALSE)
                  ELSE ParseArgs(args, i + 2,
                           [config_ EXCEPT !.log_file_path = args[i + 1]])
             ELSE IF arg \in OptOutput
             THEN IF missing THEN ReturnFromLoop(config_, FALSE, FALSE)
                  ELSE ParseArgs(args, i + 2,
                           [config_ EXCEPT !.report_output_path = args[i + 1]])
             ELSE IF arg \in OptThreshold
             THEN IF missing THEN ReturnFromLoop(config_, FALSE, FALSE)
                  ELSE LET threshold == parseInteger(args[i + 1])
                       IN  IF ~threshold.ok
                           THEN ReturnFromLoop(config_, FALSE, FALSE)
                           ELSE ParseArgs(args, i + 2,
                                    [config_ EXCEPT !.failed_login_threshold =
                                                        threshold.value])
             ELSE IF arg \in OptWindow
             THEN IF missing THEN ReturnFromLoop(config_, FALSE, FALSE)
                  ELSE LET window == parseInteger(args[i + 1])
                       IN  IF ~window.ok
                           THEN ReturnFromLoop(config_, FALSE, FALSE)
                           ELSE ParseArgs(args, i + 2,
                                    [config_ EXCEPT !.time_window_minutes =
                                                        window.value])
             ELSE IF arg \in OptHours
             THEN IF missing THEN ReturnFromLoop(config_, FALSE, FALSE)
                  ELSE LET hours == parseBusinessHours(args[i + 1])
                       IN  IF ~hours.ok
                           THEN ReturnFromLoop(config_, FALSE, FALSE)
                           ELSE ParseArgs(args, i + 2,
                                    [config_ EXCEPT
                                        !.business_hour_start = hours.start,
                                        !.business_hour_end = hours.end])
             ELSE ReturnFromLoop(config_, FALSE, FALSE)

\* ConfigManager::parseCommandLineArgs: the manager afterwards and the
\* return value
parseCommandLineArgs(manager, args) == ParseArgs(args, 1, manager.config_)

----------------------------------------------------------------------------
(* LogParser.  The text of a line is a sequence of byte values.            *)

\* '|', '\n', ' ', ':' 
Pipe == 124
NewLine == 10
Space == 32
Colon == 58

\* std::isspace: ' ', '\t', '\n', '\v', '\f', '\r'
IsSpace(ch) == ch = Space \/ (ch >= 9 /\ ch <= 13)

\* LogParser::trim
trim(str) ==
    LET kept == {k \in 1..Len(str) : ~IsSpace(str[k])}
    IN  IF kept = {} THEN <<>>
        ELSE SubSeq(str, CHOOSE k \in kept : \A m \in kept : k <= m,
                         CHOOSE k \in kept : \A m \in kept : k >= m)

\* the n digits of str from position k on as a number; -1 if one is missing
RECURSIVE ExtractNum(_, _, _, _)
ExtractNum(str, k, n, acc) ==
    IF n = 0 THEN acc
    ELSE IF k > Len(str) \/ ~IsDigit(str[k]) THEN -1
    ELSE ExtractNum(str, k + 1, n - 1, acc * 10 + (str[k] - Digit0))

\* ss >> std::get_time(&tm, "%Y-%m-%d %H:%M:%S") on text whose fields have
\* their full width (4, 2, 2, 2, 2, 2 digits) and whose separators are single
\* characters, the form on which the libraries agree; text after the seconds
\* is left in the stream
GetTime(str) ==
    LET year  == ExtractNum(str, 1, 4, 0)
        mon   == ExtractNum(str, 6, 2, 0)
        mday  == ExtractNum(str, 9, 2, 0)
        hour  == ExtractNum(str, 12, 2, 0)
        min   == ExtractNum(str, 15, 2, 0)
        sec   == ExtractNum(str, 18, 2, 0)
        At(k, ch) == k <= Len(str) /\ str[k] = ch
    IN  IF /\ year >= 0
           /\ At(5, Minus) /\ mon >= 1 /\ mon <= 12
           /\ At(8, Minus) /\ mday >= 1 /\ mday <= 31
           /\ At(11, Space) /\ hour >= 0 /\ hour <= 23
           /\ At(14, Colon) /\ min >= 0 /\ min <= 59
           /\ At(17, Colon) /\ sec >= 0 /\ sec <= 60
        THEN [fail |-> FALSE,
              tm |-> [tm_year |-> year - 1900, tm_mon |-> mon - 1, tm_mday |-> mday,
                      tm_hour |-> hour, tm_min |-> min, tm_sec |-> sec]]
        ELSE [fail |-> TRUE]

\* days from 1970-01-01 to the first day of month m (1..12) of year y
DaysToMonth(y, m) ==
    LET yy  == IF m <= 2 THEN y - 1 ELSE y
        era == yy \div 400
        yoe == yy - era * 400
        mp  == IF m > 2 THEN m - 3 ELSE m + 9
        doy == (153 * mp + 2) \div 5
        doe == yoe * 365 + yoe \div 4 - yoe \div 100 + doy
    IN  era * 146097 + doe - 719468

\* std::mktime: the local broken-down time as seconds since the epoch
mktime(tm) ==
    (DaysToMonth(tm.tm_year + 1900, tm.tm_mon + 1) + tm.tm_mday - 1) * SecondsPerDay
    + tm.tm_hour * SecondsPerHour + tm.tm_min * SecondsPerMinute + tm.tm_sec
    - utc_offset

\* LogParser::parseTimestamp
parseTimestamp(timestamp_str) ==
    LET ss == GetTime(timestamp_str)
    IN  IF ss.fail THEN nullopt
        ELSE LET time == mktime(ss.tm)
             IN  IF time = -1 THEN nullopt ELSE Optional(time)

\* std::toupper
ToUpper(c) == IF c >= 97 /\ c <= 122 THEN c - 32 ELSE c

\* "SUCCESS" and "FAILED"
TextSuccess == <<83, 85, 67, 67, 69, 83, 83>>
TextFailed == <<70, 65, 73, 76, 69, 68>>

\* LogParser::parseStatus
parseStatus(status_str) ==
    LET status_upper == [k \in 1..Len(status_str) |-> ToUpper(status_str[k])]
    IN  IF status_upper = TextSuccess THEN "SUCCESS"
        ELSE IF status_upper = TextFailed THEN "FAILED"
        ELSE "UNKNOWN"

\* std::istringstream ss(line)
StringStream(str) == [buf |-> str, good |-> TRUE]

\* std::getline(ss, str, delim): whether it succeeded, the text extracted
\* and the stream afterwards.  The delimiter is extracted and dropped; at the
\* end of the text the stream is no longer good, and extracting nothing fails.
getline(ss, delim) ==
    IF ~ss.good THEN [ok |-> FALSE, str |-> <<>>, ss |-> ss]
    ELSE LET pos == Find(ss.buf, delim)
         IN  IF pos # 0
             THEN [ok |-> TRUE, str |-> SubSeq(ss.buf, 1, pos - 1),
                   ss |-> [buf |-> SubSeq(ss.buf, pos + 1, Len(ss.buf)),
                           good |-> TRUE]]
             ELSE [ok |-> ss.buf # <<>>, str |-> ss.buf,
                   ss |-> [buf |-> <<>>, good |-> FALSE]]

\* LogParser::parseLogLine
parseLogLine(text) ==
    LET f1 == getline(StringStream(text), Pipe)
        f2 == getline(f1.ss, Pipe)
        f3 == getline(f2.ss, Pipe)
        f4 == getline(f3.ss, NewLine)
        timestamp_str == trim(f1.str)
        username      == trim(f2.str)
        ip_address    == trim(f3.str)
        status_str    == trim(f4.str)
        timestamp_opt == parseTimestamp(timestamp_str)
    IN  IF ~f1.ok THEN nullopt
        ELSE IF ~f2.ok THEN nullopt
        ELSE IF ~f3.ok THEN nullopt
        ELSE IF ~f4.ok THEN nullopt
        ELSE IF timestamp_str = <<>> \/ username = <<>>
                \/ ip_address = <<>> \/ status_str = <<>> THEN nullopt
        ELSE IF ~timestamp_opt.has_value THEN nullopt
        ELSE Optional(LogEntry(timestamp_opt.value, username, ip_address,
                               parseStatus(status_str)))

----------------------------------------------------------------------------
(* The caller.  main collects log_entries with push_back, builds the       *)
(* EventDetector from the configuration and calls detectAll once.          *)

\* EventDetector(failed_login_threshold, time_window_minutes,
\*               business_hour_start, business_hour_end)
EventDetector(threshold, window, hour_start, hour_end) ==
    [failed_login_threshold |-> threshold, time_window_minutes |-> window,
     business_hour_start |-> hour_start, business_hour_end |-> hour_end]

\* no detector loop is being stepped through
NoFrame == [fn |-> "none"]

\* no ConfigManager method has been called yet
NoCall == [op |-> "none", number |-> 0]

\* main has not returned
NotExited == -1

\* a caller that is not main: no command line, no log file
NoCommandLine ==
    /\ argv = <<>>
    /\ log_file = <<>>
    /\ line = <<>>
    /\ entry_opt = nullopt
    /\ line_number = 0
    /\ invalid_entries = 0
    /\ exit_code = NotExited

\* no report has been generated: an empty stream, no file, no directory
NoReport ==
    /\ now = 0
    /\ output = <<>>
    /\ directories = {}
    /\ files = <<>>

\* the tie orders of std::sort that are modelled
SortTies == {"stable", "reversed"}

\* the state before the first push_back, for a set of detectors and time zones
Start(detectors, offsets, ties) ==
    /\ detector \in detectors
    /\ utc_offset \in offsets
    /\ sort_ties \in ties
    /\ entries = <<>>
    /\ pc = "load"
    /\ failed_logins = <<>>
    /\ outside_hours = <<>>
    /\ multiple_ips = <<>>
    /\ all_events = <<>>
    /\ frame = NoFrame
    /\ config_manager = ConfigManager
    /\ call = NoCall
    /\ NoCommandLine
    /\ NoReport

\* log_entries.push_back(entry)
PushBack(entry) ==
    /\ pc = "load"
    /\ entries' = Append(entries, entry)
    /\ UNCHANGED <<detector, utc_offset, sort_ties, pc,
                   failed_logins, outside_hours, multiple_ips, all_events>>
    /\ UNCHANGED <<frame, config_vars, main_vars, report_vars>>

\* detector.detectAll(log_entries)
DetectAll ==
    /\ pc = "load"
    /\ failed_logins' = detectMultipleFailedLogins(entries)
    /\ outside_hours' = detectLoginsOutsideBusinessHours(entries)
    /\ multiple_ips' = detectMultipleIPAddresses(entries)
    /\ all_events' = CombineResults(failed_logins', outside_hours', multiple_ips')
    /\ pc' = "done"
    /\ UNCHANGED <<detector, utc_offset, sort_ties, entries>>
    /\ UNCHANGED <<frame, config_vars, main_vars, report_vars>>

----------------------------------------------------------------------------
(* The general specification: any vector of entries over small domains, in *)
(* any order.                                                              *)

\* "A" and "a": two usernames that differ only in case
Usernames == {<<65>>, <<97>>}

\* "10" and "9": text order and numeric order disagree
IPAddresses == {<<49, 48>>, <<57>>}

\* 00:59:00, 01:00:00 and 01:01:01 of the first day: one minute, one minute
\* and one second, two minutes and one second apart
Timestamps == {3540, 3600, 3661}

\* successful logins come from either address, the other records from "10"
Records ==
    {r \in {LogEntry(ts, user, ip, stat) :
                ts \in Timestamps, user \in Usernames,
                ip \in IPAddresses, stat \in LoginStatus} :
        r.status = "SUCCESS" \/ r.ip_address = <<49, 48>>}

\* thresholds 1 and 2, a window of one minute, business hours 1-2
Detectors == {EventDetector(1, 1, 1, 2), EventDetector(2, 1, 1, 2)}

Init == Start(Detectors, {0}, {"stable"})

AddEntry ==
    /\ Len(entries) < MaxEntries
    /\ \E e \in Records : PushBack(e)

Next == AddEntry \/ DetectAll

Spec == Init /\ [][Next]_vars

----------------------------------------------------------------------------
(* The burst specification: FAILED records of one user on a grid of whole  *)
(* minutes, in ascending time order.                                       *)

\* "alice"
Alice == <<97, 108, 105, 99, 101>>

\* "192.168.1.1" is kept as "1"
AliceIP == <<49>>

BurstTimes == {m * SecondsPerMinute : m \in 0..MaxMinute}

\* the default detector (5, 10, 8, 18) and smaller thresholds and windows
BurstDetectors ==
    {EventDetector(t, w, 8, 18) : t \in {1, 2, 3, 5}, w \in {1, 10}}

InitBurst == Start(BurstDetectors, {0}, {"stable"})

AddBurstEntry ==
    /\ Len(entries) < MaxBurst
    /\ \E ts \in BurstTimes :
          /\ entries # <<>> => ts > entries[Len(entries)].timestamp
          /\ PushBack(LogEntry(ts, Alice, AliceIP, "FAILED"))

NextBurst == AddBurstEntry \/ DetectAll

SpecBurst == InitBurst /\ [][NextBurst]_vars

----------------------------------------------------------------------------
(* The business-hours specification: records of any outcome at the hours   *)
(* around the default business hours, in two time zones.                   *)

\* "bob"
Bob == <<98, 111, 98>>

\* 06:59:59, 07:00:00, 16:59:59, 17:00:00, 17:59:59 and 23:00:00 UTC
HourTimestamps == {25199, 25200, 61199, 61200, 64799, 82800}

HourRecords ==
    {LogEntry(ts, Bob, AliceIP, stat) : ts \in HourTimestamps, stat \in LoginStatus}

\* the default business hours, and 9-17
HourDetectors == {EventDetector(5, 10, 8, 18), EventDetector(5, 10, 9, 17)}

InitHours == Start(HourDetectors, {0, SecondsPerHour}, {"stable"})

AddHourEntry ==
    /\ Len(entries) < MaxHourEntries
    /\ \E e \in HourRecords : PushBack(e)

NextHours == AddHourEntry \/ DetectAll

SpecHours == InitHours /\ [][NextHours]_vars

----------------------------------------------------------------------------
(* The multiple-address specification: successful logins of one user from  *)
(* three addresses, at second resolution, in any order.                    *)

\* "10", "172" and "9"
LoginIPs == {<<49, 48>>, <<49, 55, 50>>, <<57>>}

\* 0:00, 1:00, 1:59, 2:00, 2:59 and 3:00 after the epoch
LoginTimestamps == {0, 60, 119, 120, 179, 180}

LoginRecords ==
    {LogEntry(ts, Bob, ip, "SUCCESS") : ts \in LoginTimestamps, ip \in LoginIPs}

LoginDetectors == {EventDetector(5, 1, 8, 18), EventDetector(5, 2, 8, 18)}

InitIP == Start(LoginDetectors, {0}, SortTies)

AddLoginEntry ==
    /\ Len(entries) < MaxLogins
    /\ \E e \in LoginRecords : PushBack(e)

NextIP == AddLoginEntry \/ DetectAll

SpecIP == InitIP /\ [][NextIP]_vars

----------------------------------------------------------------------------
(* detectAll step by step: one action per iteration of each detector's     *)
(* loops.  frame holds the locals of the detector that is running: the     *)
(* keys of the map still to visit, the current user's sorted vector, the   *)
(* anchor i (1-based) and detected_events.                                 *)

\* longest input vector of the step-by-step specification
MaxScanEntries == 3

\* the detectors with an anchor loop
AnchorLoops == {"detectMultipleFailedLogins", "detectMultipleIPAddresses"}

\* a detector's locals when its loop over the map (or the vector) starts
EnterFrame(fn, users) ==
    [fn |-> fn, users |-> users, username |-> <<>>, logins |-> <<>>, i |-> 1,
     detected_events |-> <<>>]

\* detectAll calls detectMultipleFailedLogins: Step 1 has filled the map
EnterDetectAll ==
    /\ pc = "load"
    /\ frame' = EnterFrame("detectMultipleFailedLogins",
                           InOrder(FailedUsers(entries)))
    /\ pc' = "detectMultipleFailedLogins"
    /\ UNCHANGED <<detector, utc_offset, sort_ties, entries,
                   failed_logins, outside_hours, multiple_ips, all_events>>
    /\ UNCHANGED <<config_vars, main_vars, report_vars>>

\* the loop over failed_logins_by_user takes the next user and sorts
FailedNextUser ==
    /\ pc = "detectMultipleFailedLogins"
    /\ frame.i > Len(frame.logins)
    /\ frame.users # <<>>
    /\ frame' = [frame EXCEPT
                    !.username = Head(frame.users),
                    !.users = Tail(frame.users),
                    !.logins = SortByTimestamp(
                                   FailedLoginsByUser(entries, Head(frame.users))),
                    !.i = 1]
    /\ UNCHANGED <<detect_vars, config_vars, main_vars, report_vars>>

\* one iteration of the anchor loop of detectMultipleFailedLogins, ++i included
FailedAnchorStep ==
    /\ pc = "detectMultipleFailedLogins"
    /\ frame.i <= Len(frame.logins)
    /\ LET i == frame.i
           w == ScanFailedWindow(frame.logins, i, i + 1,
                                 [count |-> 1, window_end_idx |-> i])
       IN  IF MeetsThreshold(w.count)
           THEN frame' = [frame EXCEPT
                    !.detected_events =
                        Append(@, FailedLoginEvent(frame.username, frame.logins[i],
                                      frame.logins[w.window_end_idx], w.count)),
                    !.i = SkipToClusterEnd(i, w.window_end_idx) + 1]
           ELSE frame' = [frame EXCEPT !.i = i + 1]
    /\ UNCHANGED <<detect_vars, config_vars, main_vars, report_vars>>

\* detectMultipleFailedLogins returns; detectAll calls the after-hours detector
FailedReturn ==
    /\ pc = "detectMultipleFailedLogins"
    /\ frame.i > Len(frame.logins)
    /\ frame.users = <<>>
    /\ failed_logins' = frame.detected_events
    /\ frame' = EnterFrame("detectLoginsOutsideBusinessHours", <<>>)
    /\ pc' = "detectLoginsOutsideBusinessHours"
    /\ UNCHANGED <<detector, utc_offset, sort_ties, entries,
                   outside_hours, multiple_ips, all_events>>
    /\ UNCHANGED <<config_vars, main_vars, report_vars>>

\* one iteration of the range-for of detectLoginsOutsideBusinessHours
OutsideHoursStep ==
    /\ pc = "detectLoginsOutsideBusinessHours"
    /\ frame.i <= Len(entries)
    /\ LET entry == entries[frame.i]
           hour  == getHourOfDay(entry.timestamp)
       IN  IF entry.status = "SUCCESS" /\ IsOutsideHours(hour)
           THEN frame' = [frame EXCEPT
                    !.detected_events = Append(@, OutsideHoursEvent(entry, hour)),
                    !.i = @ + 1]
           ELSE frame' = [frame EXCEPT !.i = @ + 1]
    /\ UNCHANGED <<detect_vars, config_vars, main_vars, report_vars>>

\* detectLoginsOutsideBusinessHours returns; detectAll calls the address detector
OutsideHoursReturn ==
    /\ pc = "detectLoginsOutsideBusinessHours"
    /\ frame.i > Len(entries)
    /\ outside_hours' = frame.detected_events
    /\ frame' = EnterFrame("detectMultipleIPAddresses",
                           InOrder(LoginUsers(entries)))
    /\ pc' = "detectMultipleIPAddresses"
    /\ UNCHANGED <<detector, utc_offset, sort_ties, entries,
                   failed_logins, multiple_ips, all_events>>
    /\ UNCHANGED <<config_vars, main_vars, report_vars>>

\* the loop over logins_by_user takes the next user and sorts
IPNextUser ==
    /\ pc = "detectMultipleIPAddresses"
    /\ frame.i > Len(frame.logins)
    /\ frame.users # <<>>
    /\ frame' = [frame EXCEPT
                    !.username = Head(frame.users),
                    !.users = Tail(frame.users),
                    !.logins = SortByTimestamp(
                                   LoginsByUser(entries, Head(frame.users))),
                    !.i = 1]
    /\ UNCHANGED <<detect_vars, config_vars, main_vars, report_vars>>

\* one iteration of the anchor loop of detectMultipleIPAddresses, ++i included
IPAnchorStep ==
    /\ pc = "detectMultipleIPAddresses"
    /\ frame.i <= Len(frame.logins)
    /\ LET i == frame.i
           w == ScanIPWindow(frame.logins, i, i + 1,
                    [ip_addresses   |-> {frame.logins[i].ip_address},
                     window_end_idx |-> i])
       IN  IF HasMultipleIPs(w.ip_addresses)
           THEN frame' = [frame EXCEPT
                    !.detected_events =
                        Append(@, MultipleIPEvent(frame.username, frame.logins[i],
                                      frame.logins[w.window_end_idx],
                                      w.ip_addresses)),
                    !.i = SkipToWindowEnd(i, w.window_end_idx) + 1]
           ELSE frame' = [frame EXCEPT !.i = i + 1]
    /\ UNCHANGED <<detect_vars, config_vars, main_vars, report_vars>>

\* detectMultipleIPAddresses returns to detectAll
IPReturn ==
    /\ pc = "detectMultipleIPAddresses"
    /\ frame.i > Len(frame.logins)
    /\ frame.users = <<>>
    /\ multiple_ips' = frame.detected_events
    /\ frame' = NoFrame
    /\ pc' = "combine"
    /\ UNCHANGED <<detector, utc_offset, sort_ties, entries,
                   failed_logins, outside_hours, all_events>>
    /\ UNCHANGED <<config_vars, main_vars, report_vars>>

\* detectAll combines the three results and returns
CombineAndReturn ==
    /\ pc = "combine"
    /\ all_events' = CombineResults(failed_logins, outside_hours, multiple_ips)
    /\ pc' = "done"
    /\ UNCHANGED <<detector, utc_offset, sort_ties, entries,
                   failed_logins, outside_hours, multiple_ips>>
    /\ UNCHANGED <<frame, config_vars, main_vars, report_vars>>

\* a step of the running detectAll call
ScanStep ==
    \/ FailedNextUser \/ FailedAnchorStep \/ FailedReturn
    \/ OutsideHoursStep \/ OutsideHoursReturn
    \/ IPNextUser \/ IPAnchorStep \/ IPReturn
    \/ CombineAndReturn

\* alice's logins 0, 1 and 3 minutes into the day, failed or successful from
\* two addresses, and one failed and one successful login of bob
ScanRecords ==
    {LogEntry(ts, Alice, AliceIP, "FAILED") : ts \in {0, 60, 180}}
    \cup {LogEntry(ts, Alice, ip, "SUCCESS") : ts \in {0, 60, 180},
                                                 ip \in {AliceIP, <<57>>}}
    \cup {LogEntry(0, Bob, AliceIP, stat) : stat \in {"FAILED", "SUCCESS"}}

\* thresholds 1 and 2, a window of one minute, business hours 1-2
ScanDetectors == {EventDetector(1, 1, 1, 2), EventDetector(2, 1, 1, 2)}

InitScan == Start(ScanDetectors, {0}, {"stable"})

AddScanEntry ==
    /\ Len(entries) < MaxScanEntries
    /\ \E e \in ScanRecords : PushBack(e)

NextScan == AddScanEntry \/ EnterDetectAll \/ ScanStep

SpecScan == InitScan /\ [][NextScan]_vars

----------------------------------------------------------------------------
(* The cluster specification: failed and successful logins of one user     *)
(* from two addresses, pushed in time order with records of equal          *)
(* timestamp in either order, sorted by a std::sort that leaves ties       *)
(* either way.                                                             *)

\* longest input vector of the cluster specification
MaxClusterEntries == 4

\* 0:00, 1:00, 1:59 and 3:00 after the epoch
ClusterTimes == {0, 60, 119, 180}

\* alice's logins, failed or successful, from "1" or "9"
ClusterRecords ==
    {LogEntry(ts, Alice, ip, stat) :
        ts \in ClusterTimes, ip \in {AliceIP, <<57>>}, stat \in {"FAILED", "SUCCESS"}}

\* thresholds 2 and 3 with a window of one minute
ClusterDetectors == {EventDetector(2, 1, 8, 18), EventDetector(3, 1, 8, 18)}

InitCluster == Start(ClusterDetectors, {0}, SortTies)

AddClusterEntry ==
    /\ Len(entries) < MaxClusterEntries
    /\ \E e \in ClusterRecords :
          /\ entries # <<>> => e.timestamp >= entries[Len(entries)].timestamp
          /\ PushBack(e)

NextCluster == AddClusterEntry \/ DetectAll

SpecCluster == InitCluster /\ [][NextCluster]_vars

----------------------------------------------------------------------------
(* The valid-hours specification: a detector built from whatever           *)
(* configuration a ConfigManager holds after setConfiguration was given    *)
(* business hours between -1 and 24, and logins at every hour of the day,  *)
(* in a time zone at UTC or one hour east of it.                           *)

\* longest input vector of the valid-hours specification
MaxDayEntries == 1

\* bob's successful logins at every full hour of the first day, and a failed
\* one at 23:00
DayRecords ==
    {LogEntry(hour * SecondsPerHour, Bob, AliceIP, "SUCCESS") : hour \in 0..LastHour}
    \cup {LogEntry(LastHour * SecondsPerHour, Bob, AliceIP, "FAILED")}

\* manager.setConfiguration(config) with any business hours, then
\* EventDetector detector(...) from manager.getConfiguration()
InitValidHours ==
    /\ \E hour_start \in -1..LastHour + 1, hour_end \in -1..LastHour + 1 :
          config_manager
              = setConfiguration(ConfigManager,
                    [DefaultConfiguration EXCEPT !.business_hour_start = hour_start,
                                                 !.business_hour_end = hour_end]
                ).config_manager
    /\ detector = EventDetector(config_manager.config_.failed_login_threshold,
                                config_manager.config_.time_window_minutes,
                                config_manager.config_.business_hour_start,
                                config_manager.config_.business_hour_end)
    /\ utc_offset \in {0, SecondsPerHour}
    /\ sort_ties = "stable"
    /\ entries = <<>>
    /\ pc = "load"
    /\ failed_logins = <<>>
    /\ outside_hours = <<>>
    /\ multiple_ips = <<>>
    /\ all_events = <<>>
    /\ frame = NoFrame
    /\ call = NoCall
    /\ NoCommandLine
    /\ NoReport

AddDayEntry ==
    /\ Len(entries) < MaxDayEntries
    /\ \E e \in DayRecords : PushBack(e)

NextValidHours == AddDayEntry \/ DetectAll

SpecValidHours == InitValidHours /\ [][NextValidHours]_vars

----------------------------------------------------------------------------
(* A ConfigManager and a caller that calls its methods in any order, as    *)
(* the unit tests do.                                                      *)

\* most calls made on one ConfigManager
MaxCalls == 2

\* no EventDetector has been constructed
NotConstructed == [constructed |-> FALSE]

\* a caller that has no detector (yet), at position `at`
NoDetector(at) ==
    /\ detector = NotConstructed
    /\ sort_ties = "stable"
    /\ entries = <<>>
    /\ pc = at
    /\ failed_logins = <<>>
    /\ outside_hours = <<>>
    /\ multiple_ips = <<>>
    /\ all_events = <<>>
    /\ frame = NoFrame

\* "--help", "--threshold", "-w", "--hours", "--input", "0", "3", "9-17",
\* "17-9", "x" and the empty string
ArgTokens ==
    {<<45, 45, 104, 101, 108, 112>>,
     <<45, 45, 116, 104, 114, 101, 115, 104, 111, 108, 100>>,
     <<45, 119>>,
     <<45, 45, 104, 111, 117, 114, 115>>,
     <<45, 45, 105, 110, 112, 117, 116>>,
     <<48>>, <<51>>, <<57, 45, 49, 55>>, <<49, 55, 45, 57>>, <<120>>, <<>>}

\* the command lines of up to n arguments
CommandLines(n) == UNION {[1..k -> ArgTokens] : k \in 0..n}

\* the command lines given to a ConfigManager on its own: none, "--help",
\* "x", "--threshold" without a value, and each of "--threshold", "-w",
\* "--hours", "--input" with each of "0", "3", "9-17", "17-9", "x" and ""
ConfigCommandLines ==
    {<<>>,
     <<<<45, 45, 104, 101, 108, 112>>>>,
     <<<<120>>>>,
     <<<<45, 45, 116, 104, 114, 101, 115, 104, 111, 108, 100>>>>}
    \cup {<<option, value>> :
            option \in {<<45, 45, 116, 104, 114, 101, 115, 104, 111, 108, 100>>,
                        <<45, 119>>,
                        <<45, 45, 104, 111, 117, 114, 115>>,
                        <<45, 45, 105, 110, 112, 117, 116>>},
            value \in {<<48>>, <<51>>, <<57, 45, 49, 55>>, <<49, 55, 45, 57>>,
                       <<120>>, <<>>}}

\* configurations around every limit validateConfiguration tests; "a" is a path
Configurations ==
    {Configuration(threshold, window, hour_start, hour_end, log_path, report_path) :
        threshold \in {-5, 0, 1}, window \in {-10, 0, 1},
        hour_start \in {-1, 0, 8, 24}, hour_end \in {0, 18, 23, 24},
        log_path \in {<<>>, <<97>>}, report_path \in {<<>>, <<97>>}}

InitConfig ==
    /\ NoDetector("calls")
    /\ utc_offset = 0
    /\ config_manager = ConfigManager
    /\ call = NoCall
    /\ NoCommandLine
    /\ NoReport

\* manager.parseCommandLineArgs(argc, argv)
ParseCommandLineArgsCall ==
    /\ call.number < MaxCalls
    /\ \E args \in ConfigCommandLines :
          LET r == parseCommandLineArgs(config_manager, args)
          IN  /\ config_manager' = r.config_manager
              /\ call' = [op |-> "parseCommandLineArgs", number |-> call.number + 1,
                          returned |-> r.returned]
    /\ UNCHANGED <<detect_vars, frame, main_vars, report_vars>>

\* manager.setConfiguration(config)
SetConfigurationCall ==
    /\ call.number < MaxCalls
    /\ \E config \in Configurations :
          LET r == setConfiguration(config_manager, config)
          IN  /\ config_manager' = r.config_manager
              /\ call' = [op |-> "setConfiguration", number |-> call.number + 1,
                          config |-> config, temp |-> r.temp,
                          returned |-> r.returned]
    /\ UNCHANGED <<detect_vars, frame, main_vars, report_vars>>

\* manager.validateConfiguration()
ValidateConfigurationCall ==
    /\ call.number < MaxCalls
    /\ call' = [op |-> "validateConfiguration", number |-> call.number + 1,
                returned |-> validateConfiguration(config_manager.config_)]
    /\ UNCHANGED <<detect_vars, frame, config_manager, main_vars, report_vars>>

NextConfig ==
    ParseCommandLineArgsCall \/ SetConfigurationCall \/ ValidateConfigurationCall

SpecConfig == InitConfig /\ [][NextConfig]_vars

----------------------------------------------------------------------------
(* parseLogLine on its own: one line, one call.                            *)

\* most pipe-separated fields of a line
MaxFields == 5

\* "2026-01-18 08:45:12"
TextTimestamp ==
    <<50, 48, 50, 54, 45, 48, 49, 45, 49, 56, 32, 48, 56, 58, 52, 53, 58, 49, 50>>

\* what may stand in the k-th field: nothing, or for the timestamp
\* "2026-01-18 08:45:12", "2026-01-18", "invalid-timestamp"; the user "jdoe";
\* the address "192.168.1.10"; the statuses "SUCCESS", "Failed", "PENDING";
\* and "extra" after the status
FieldTexts(k) ==
    CASE k = 1 -> {<<>>, TextTimestamp, SubSeq(TextTimestamp, 1, 10),
                   <<105, 110, 118, 97, 108, 105, 100, 45, 116, 105, 109, 101,
                     115, 116, 97, 109, 112>>}
      [] k = 2 -> {<<>>, <<106, 100, 111, 101>>}
      [] k = 3 -> {<<>>, <<49, 57, 50, 46, 49, 54, 56, 46, 49, 46, 49, 48>>}
      [] k = 4 -> {<<>>, TextSuccess, <<70, 97, 105, 108, 101, 100>>,
                   <<80, 69, 78, 68, 73, 78, 71>>}
      [] OTHER -> {<<>>, <<101, 120, 116, 114, 97>>}

\* a field as it is, or with a space on either side
PaddedTexts(k) ==
    FieldTexts(k) \cup {<<Space>> \o t \o <<Space>> : t \in FieldTexts(k)}

\* the lines of n fields
RECURSIVE LinesOf(_)
LinesOf(n) ==
    IF n = 1 THEN PaddedTexts(1)
    ELSE {l \o <<Pipe>> \o f : l \in LinesOf(n - 1), f \in PaddedTexts(n)}

ParseLines == {<<>>} \cup UNION {LinesOf(n) : n \in 1..MaxFields}

InitParse ==
    /\ NoDetector("line")
    /\ utc_offset \in {0, SecondsPerHour}
    /\ config_manager = ConfigManager
    /\ call = NoCall
    /\ argv = <<>>
    /\ log_file = <<>>
    /\ line \in ParseLines
    /\ entry_opt = nullopt
    /\ line_number = 0
    /\ invalid_entries = 0
    /\ exit_code = NotExited
    /\ NoReport

\* auto entry_opt = LogParser::parseLogLine(line)
ParseLogLineCall ==
    /\ pc = "line"
    /\ entry_opt' = parseLogLine(line)
    /\ pc' = "parsed"
    /\ UNCHANGED <<detector, utc_offset, sort_ties, entries,
                   failed_logins, outside_hours, multiple_ips, all_events>>
    /\ UNCHANGED <<frame, config_vars, report_vars, argv, log_file, line, line_number,
                   invalid_entries, exit_code>>

NextParse == ParseLogLineCall

SpecParse == InitParse /\ [][NextParse]_vars

----------------------------------------------------------------------------
(* main, statement by statement.  The log file is read as std::getline     *)
(* delivers it: log_file holds the lines taken so far, and what comes      *)
(* next (another line, or the end of the file) is the environment's        *)
(* choice.                                                                 *)

\* most arguments on main's command line
MaxArgs == 3

\* most lines of the log file when the command line varies
MaxMainLines == 1

\* most lines of the log file when the log file varies
MaxLines == 3

\* main's exit codes
ExitOk == 0
ExitBadArguments == 1
ExitNoLogFile == 2
ExitNoReport == 3

\* the lines a log file is made of: a failed login, a successful one at
\* 23:10 from another address, one of status PENDING, one with a fifth
\* field, one with a bad timestamp, one of three fields, an empty line and
\* a line of one space
FileLines ==
    {TextTimestamp \o <<Pipe, 117, Pipe, 49, Pipe>> \o TextFailed,
     <<50, 48, 50, 54, 45, 48, 49, 45, 49, 56, 32, 50, 51, 58, 49, 48, 58, 48, 48>>
        \o <<Pipe, 117, Pipe, 50, Pipe>> \o TextSuccess,
     TextTimestamp \o <<Pipe, 117, Pipe, 49, Pipe, 80, 69, 78, 68, 73, 78, 71>>,
     TextTimestamp \o <<Pipe, 117, Pipe, 49, Pipe>> \o TextSuccess
        \o <<Pipe, 101, 120, 116, 114, 97>>,
     <<105, 110, 118, 97, 108, 105, 100, Pipe, 117, Pipe, 49, Pipe>> \o TextSuccess,
     TextTimestamp \o <<Pipe, 117, Pipe, 49>>,
     <<>>,
     <<Space>>}

\* main is entered with a command line out of `lines`
InitMain(lines) ==
    /\ NoDetector("config")
    /\ utc_offset = 0
    /\ config_manager = ConfigManager
    /\ call = NoCall
    /\ argv \in lines
    /\ log_file = <<>>
    /\ line = <<>>
    /\ entry_opt = nullopt
    /\ line_number = 0
    /\ invalid_entries = 0
    /\ exit_code = NotExited
    /\ NoReport

\* Step 1: parseCommandLineArgs, return 1 on failure, return 0 after --help
ParseCommandLine ==
    /\ pc = "config"
    /\ LET r == parseCommandLineArgs(config_manager, argv)
       IN  /\ config_manager' = r.config_manager
           /\ call' = [op |-> "parseCommandLineArgs", number |-> call.number + 1,
                       returned |-> r.returned]
           /\ IF ~r.returned
              THEN pc' = "exit" /\ exit_code' = ExitBadArguments
              ELSE IF r.config_manager.help_requested_
              THEN pc' = "exit" /\ exit_code' = ExitOk
              ELSE pc' = "open" /\ UNCHANGED exit_code
    /\ UNCHANGED <<detector, utc_offset, sort_ties, entries,
                   failed_logins, outside_hours, multiple_ips, all_events>>
    /\ UNCHANGED <<frame, report_vars, argv, log_file, line, entry_opt, line_number,
                   invalid_entries>>

\* Step 2: std::ifstream log_file(config.log_file_path), return 2 if not open
OpenLogFile ==
    /\ pc = "open"
    /\ \E is_open \in BOOLEAN :
          IF is_open THEN pc' = "read" /\ UNCHANGED exit_code
          ELSE pc' = "exit" /\ exit_code' = ExitNoLogFile
    /\ UNCHANGED <<detector, utc_offset, sort_ties, entries,
                   failed_logins, outside_hours, multiple_ips, all_events>>
    /\ UNCHANGED <<frame, config_vars, report_vars, argv, log_file, line, entry_opt,
                   line_number, invalid_entries>>

\* mutant: a parsed entry put in front of the entries collected so far
PushParsedFront(log_entries, parsed) ==
    IF parsed.has_value THEN <<parsed.value>> \o log_entries ELSE log_entries

\* log_entries after the if (entry_opt.has_value()) of the read loop
PushParsed(log_entries, parsed) ==
    IF parsed.has_value THEN Append(log_entries, parsed.value) ELSE log_entries

\* one iteration of while (std::getline(log_file, line)), for a file of at
\* most `limit` lines
ReadLine(limit) ==
    /\ pc = "read"
    /\ Len(log_file) < limit
    /\ \E text \in FileLines :
          /\ log_file' = Append(log_file, text)
          /\ line' = text
          /\ line_number' = line_number + 1
          /\ IF text = <<>>
             THEN UNCHANGED <<entry_opt, entries, invalid_entries>>
             ELSE /\ entry_opt' = parseLogLine(text)
                  /\ entries' = PushParsed(entries, parseLogLine(text))
                  /\ invalid_entries' = IF parseLogLine(text).has_value
                                        THEN invalid_entries
                                        ELSE invalid_entries + 1
    /\ UNCHANGED <<detector, utc_offset, sort_ties, pc,
                   failed_logins, outside_hours, multiple_ips, all_events>>
    /\ UNCHANGED <<frame, config_vars, report_vars, argv, exit_code>>

\* std::getline fails at the end of the file; log_file.close()
EndOfFile ==
    /\ pc = "read"
    /\ pc' = "construct"
    /\ UNCHANGED <<detector, utc_offset, sort_ties, entries,
                   failed_logins, outside_hours, multiple_ips, all_events>>
    /\ UNCHANGED <<frame, config_vars, main_vars, report_vars>>

\* Step 3: EventDetector detector(config...)
ConstructDetector ==
    /\ pc = "construct"
    /\ detector' = EventDetector(config_manager.config_.failed_login_threshold,
                                 config_manager.config_.time_window_minutes,
                                 config_manager.config_.business_hour_start,
                                 config_manager.config_.business_hour_end)
    /\ pc' = "detect"
    /\ UNCHANGED <<utc_offset, sort_ties, entries,
                   failed_logins, outside_hours, multiple_ips, all_events>>
    /\ UNCHANGED <<frame, config_vars, main_vars, report_vars>>

\* suspicious_events = detector.detectAll(log_entries)
MainDetectAll ==
    /\ pc = "detect"
    /\ failed_logins' = detectMultipleFailedLogins(entries)
    /\ outside_hours' = detectLoginsOutsideBusinessHours(entries)
    /\ multiple_ips' = detectMultipleIPAddresses(entries)
    /\ all_events' = CombineResults(failed_logins', outside_hours', multiple_ips')
    /\ pc' = "report"
    /\ UNCHANGED <<detector, utc_offset, sort_ties, entries>>
    /\ UNCHANGED <<frame, config_vars, main_vars, report_vars>>

\* Step 4: generateReportToFile(log_entries, suspicious_events, path), return
\* 3 if it failed, 0 otherwise
GenerateReport ==
    /\ pc = "report"
    /\ \E report_success \in BOOLEAN :
          exit_code' = IF report_success THEN ExitOk ELSE ExitNoReport
    /\ pc' = "exit"
    /\ UNCHANGED <<detector, utc_offset, sort_ties, entries,
                   failed_logins, outside_hours, multiple_ips, all_events>>
    /\ UNCHANGED <<frame, config_vars, report_vars, argv, log_file, line, entry_opt,
                   line_number, invalid_entries>>

\* main for every command line of up to MaxArgs arguments
InitArgs == InitMain(CommandLines(MaxArgs))

NextMain ==
    \/ ParseCommandLine \/ OpenLogFile \/ ReadLine(MaxMainLines) \/ EndOfFile
    \/ ConstructDetector \/ MainDetectAll \/ GenerateReport

SpecMain == InitArgs /\ [][NextMain]_vars

\* main for log files of up to MaxLines lines, without arguments and with
\* "--threshold 3"
BatchCommandLines ==
    {<<>>, <<<<45, 45, 116, 104, 114, 101, 115, 104, 111, 108, 100>>, <<51>>>>}

InitBatch == InitMain(BatchCommandLines)

NextBatch ==
    \/ ParseCommandLine \/ OpenLogFile \/ ReadLine(MaxLines) \/ EndOfFile
    \/ ConstructDetector \/ MainDetectAll \/ GenerateReport

SpecBatch == InitBatch /\ [][NextBatch]_vars

----------------------------------------------------------------------------
(* ReportGenerator.  A report is the sequence of the values its code       *)
(* inserts into the stream with <<: string literals, std::strings (byte    *)
(* sequences), ints and descriptions (kept as the values they are built    *)
(* from).                                                                  *)

\* output << "literal", << std::string, << int, << event.description
Lit(text) == [lit |-> text]
Str(bytes) == [str |-> bytes]
Num(value) == [int |-> value]
Description(values) == [description |-> values]

\* std::localtime: the broken-down local time of a time_t >= 0
localtime(time) ==
    LET local == time + utc_offset
        z     == local \div SecondsPerDay + 719468
        era   == z \div 146097
        doe   == z - era * 146097
        yoe   == (doe - doe \div 1460 + doe \div 36524 - doe \div 146096) \div 365
        doy   == doe - (365 * yoe + yoe \div 4 - yoe \div 100)
        mp    == (5 * doy + 2) \div 153
        mon   == IF mp < 10 THEN mp + 3 ELSE mp - 9
        year  == yoe + era * 400 + (IF mon <= 2 THEN 1 ELSE 0)
        secs  == local % SecondsPerDay
    IN  [tm_year |-> year - 1900, tm_mon |-> mon - 1,
         tm_mday |-> doy - (153 * mp + 2) \div 5 + 1,
         tm_hour |-> secs \div SecondsPerHour,
         tm_min  |-> (secs % SecondsPerHour) \div SecondsPerMinute,
         tm_sec  |-> secs % SecondsPerMinute]

\* a number as `width` decimal digits, zero-filled
PutNum(value, width) ==
    [k \in 1..width |-> Digit0 + ((value \div 10^(width - k)) % 10)]

\* std::put_time(tm, "%Y-%m-%d %H:%M:%S")
PutTime(tm) ==
    PutNum(tm.tm_year + 1900, 4) \o <<Minus>> \o PutNum(tm.tm_mon + 1, 2)
    \o <<Minus>> \o PutNum(tm.tm_mday, 2) \o <<Space>> \o PutNum(tm.tm_hour, 2)
    \o <<Colon>> \o PutNum(tm.tm_min, 2) \o <<Colon>> \o PutNum(tm.tm_sec, 2)

\* ReportGenerator::formatTimestamp
formatTimestamp(timestamp) == PutTime(localtime(timestamp))

\* ReportGenerator::eventTypeToString
eventTypeToString(type) ==
    CASE type = "MULTIPLE_FAILED_LOGINS" -> "Multiple Failed Login Attempts"
      [] type = "LOGIN_OUTSIDE_BUSINESS_HOURS" -> "Login Outside Business Hours"
      [] type = "MULTIPLE_IP_ADDRESSES" -> "Multiple IP Addresses"
      [] OTHER -> "Unknown Event Type"

\* ReportGenerator::generateHeader, the clock reading `clock`
generateHeader(clock) ==
    <<Lit("========================================\n"),
      Lit("   LOG ANALYZER SECURITY REPORT\n"),
      Lit("========================================\n"),
      Lit("Report Generated: "), Str(formatTimestamp(clock)), Lit("\n"),
      Lit("========================================\n\n")>>

\* ReportGenerator::generateSummary
generateSummary(log_entries, suspicious_events) ==
    <<Lit("SUMMARY STATISTICS\n"),
      Lit("----------------------------------------\n")>>
    \o IF log_entries = <<>>
       THEN <<Lit("WARNING: No log entries were processed.\n"),
              Lit("The log file may be empty or invalid.\n\n")>>
       ELSE LET total_entries == Len(log_entries)
                successful_logins ==
                    Len(SelectSeq(log_entries, LAMBDA e : e.status = "SUCCESS"))
                failed_count ==
                    Len(SelectSeq(log_entries, LAMBDA e : e.status = "FAILED"))
            IN  <<Lit("Total Log Entries: "), Num(total_entries), Lit("\n"),
                  Lit("Successful Logins: "), Num(successful_logins), Lit("\n"),
                  Lit("Failed Logins: "), Num(failed_count), Lit("\n"),
                  Lit("Suspicious Events Detected: "), Num(Len(suspicious_events)),
                  Lit("\n"),
                  Lit("\n")>>

\* generateAnomaliesDetails: for (const auto& ip : event.ip_addresses)
RECURSIVE AddressLines(_)
AddressLines(ip_addresses) ==
    IF ip_addresses = <<>> THEN <<>>
    ELSE <<Lit("        - "), Str(Head(ip_addresses)), Lit("\n")>>
         \o AddressLines(Tail(ip_addresses))

\* generateAnomaliesDetails: the body of the loop over the events
EventDetails(event, event_number) ==
    <<Lit("\n["), Num(event_number), Lit("] "), Lit(eventTypeToString(event.type)),
      Lit("\n"),
      Lit("    Username: "), Str(event.username), Lit("\n"),
      Lit("    IP Address(es): ")>>
    \o (IF event.ip_addresses = <<>> THEN <<Lit("N/A")>>
        ELSE IF Len(event.ip_addresses) = 1 THEN <<Str(event.ip_addresses[1])>>
        ELSE <<Lit("\n")>> \o AddressLines(event.ip_addresses) \o <<Lit("    ")>>)
    \o <<Lit("\n"),
         Lit("    First Occurrence: "), Str(formatTimestamp(event.first_occurrence)),
         Lit("\n"),
         Lit("    Last Occurrence: "), Str(formatTimestamp(event.last_occurrence)),
         Lit("\n"),
         Lit("    Event Count: "), Num(event.event_count), Lit("\n")>>
    \o (IF event.description # <<>>
        THEN <<Lit("    Details: "), Description(event.description), Lit("\n")>>
        ELSE <<>>)

\* generateAnomaliesDetails: the loop over the events
RECURSIVE EventsDetails(_, _)
EventsDetails(suspicious_events, event_number) ==
    IF suspicious_events = <<>> THEN <<>>
    ELSE EventDetails(Head(suspicious_events), event_number)
         \o EventsDetails(Tail(suspicious_events), event_number + 1)

\* ReportGenerator::generateAnomaliesDetails
generateAnomaliesDetails(suspicious_events) ==
    <<Lit("DETECTED ANOMALIES\n"),
      Lit("----------------------------------------\n")>>
    \o IF suspicious_events = <<>>
       THEN <<Lit("No anomalies detected.\n"),
              Lit("All login activity appears normal.\n\n")>>
       ELSE EventsDetails(suspicious_events, 1) \o <<Lit("\n")>>

\* ReportGenerator::generateFooter
generateFooter ==
    <<Lit("========================================\n"),
      Lit("         END OF REPORT\n"),
      Lit("========================================\n")>>

\* ReportGenerator::generateReport: what it inserts into the stream when
\* generateHeader reads the clock as `clock`
generateReport(log_entries, suspicious_events, clock) ==
    generateHeader(clock) \o generateSummary(log_entries, suspicious_events)
    \o generateAnomaliesDetails(suspicious_events) \o generateFooter

\* '/'
Slash == 47

\* the directory part of a path: what precedes its last '/', empty if none
RECURSIVE DirectoryOf(_)
DirectoryOf(path) ==
    IF path = <<>> THEN <<>>
    ELSE IF path[Len(path)] = Slash THEN SubSeq(path, 1, Len(path) - 1)
    ELSE DirectoryOf(SubSeq(path, 1, Len(path) - 1))

\* std::ofstream file(output_filepath); file.is_open(): the file is created
\* (or truncated) if its directory exists and the system permits it; no
\* directory is created
OpenForWriting(dirs, path, permitted) ==
    /\ path # <<>>
    /\ DirectoryOf(path) = <<>> \/ DirectoryOf(path) \in dirs
    /\ permitted

\* the files after `text` has been written to the file at `path`
WriteFile(fs, path, text) ==
    [p \in DOMAIN fs \cup {path} |-> IF p = path THEN text ELSE fs[p]]

\* ReportGenerator::generateReportToFile: its return value and the files
\* afterwards
generateReportToFile(fs, dirs, log_entries, suspicious_events, output_filepath, clock, permitted) ==
    IF ~OpenForWriting(dirs, output_filepath, permitted)
    THEN [returned |-> FALSE, files |-> fs]
    ELSE [returned |-> TRUE,
          files |-> WriteFile(fs, output_filepath,
                              generateReport(log_entries, suspicious_events, clock))]

----------------------------------------------------------------------------
(* The ReportGenerator called on what the engine found, as main does and   *)
(* as the tests do: to a stream, to a file, with the clock running.        *)

\* latest reading of the clock, in seconds
MaxClock == 2

\* "report.txt"
TextReportFile == <<114, 101, 112, 111, 114, 116, 46, 116, 120, 116>>

\* "reports"
TextReportsDirectory == <<114, 101, 112, 111, 114, 116, 115>>

\* the paths a report is written to: "report.txt" and "reports/report.txt"
ReportPaths == {TextReportFile, DefaultReportOutputPath}

\* the analyzed logs: none; alice's SUCCESS and bob's FAILED; two FAILED of
\* alice; two SUCCESS of alice from two addresses
ReportLogs ==
    {<<>>,
     <<LogEntry(0, <<97, 108, 105, 99, 101>>, <<49>>, "SUCCESS"),
       LogEntry(SecondsPerHour, <<98, 111, 98>>, <<50>>, "FAILED")>>,
     <<LogEntry(0, <<97, 108, 105, 99, 101>>, <<49>>, "FAILED"),
       LogEntry(1, <<97, 108, 105, 99, 101>>, <<49>>, "FAILED")>>,
     <<LogEntry(0, <<97, 108, 105, 99, 101>>, <<49>>, "SUCCESS"),
       LogEntry(1, <<97, 108, 105, 99, 101>>, <<50>>, "SUCCESS")>>}

\* main at Step 4: the entries are analyzed; the directory "reports" exists
\* or not
InitReport ==
    /\ detector = EventDetector(2, 1, 8, 18)
    /\ utc_offset = 0
    /\ sort_ties = "stable"
    /\ entries \in ReportLogs
    /\ pc = "report"
    /\ failed_logins = detectMultipleFailedLogins(entries)
    /\ outside_hours = detectLoginsOutsideBusinessHours(entries)
    /\ multiple_ips = detectMultipleIPAddresses(entries)
    /\ all_events = CombineResults(failed_logins, outside_hours, multiple_ips)
    /\ frame = NoFrame
    /\ config_manager = ConfigManager
    /\ call = NoCall
    /\ NoCommandLine
    /\ now = 0
    /\ output = <<>>
    /\ directories \in SUBSET {TextReportsDirectory}
    /\ files = <<>>

\* a second passes
ClockTick ==
    /\ now < MaxClock
    /\ now' = now + 1
    /\ UNCHANGED <<detect_vars, frame, config_vars, main_vars,
                   output, directories, files>>

\* generator.generateReport(entries, events, stream_output) on a new stream
GenerateReportCall ==
    /\ output = <<>>
    /\ output' = generateReport(entries, all_events, now)
    /\ call' = [op |-> "generateReport", number |-> 1, clock |-> now]
    /\ UNCHANGED <<detect_vars, frame, config_manager, main_vars,
                   now, directories, files>>

\* generator.generateReportToFile(entries, events, output_filepath)
GenerateReportToFileCall ==
    /\ \E output_filepath \in ReportPaths, permitted \in BOOLEAN :
          LET r == generateReportToFile(files, directories, entries, all_events,
                                        output_filepath, now, permitted)
          IN  /\ files' = r.files
              /\ call' = [op |-> "generateReportToFile", number |-> 1,
                          output_filepath |-> output_filepath,
                          permitted |-> permitted, clock |-> now,
                          returned |-> r.returned]
    /\ UNCHANGED <<detect_vars, frame, config_manager, main_vars,
                   now, output, directories>>

NextReport == ClockTick \/ GenerateReportCall \/ GenerateReportToFileCall

SpecReport == InitReport /\ [][NextReport]_vars

----------------------------------------------------------------------------
(* Properties *)

AbsDiff(a, b) == IF a > b THEN a - b ELSE b - a

\* the records of v with one outcome, with one username
OnlyStatus(v, stat) == SelectSeq(v, LAMBDA e : e.status = stat)
OnlyUser(v, user) == SelectSeq(v, LAMBDA e : e.username = user)

\* the findings of one username
EventsOf(events, user) == SelectSeq(events, LAMBDA f : f.username = user)

UsersIn(v) == {v[k].username : k \in 1..Len(v)}

\* every two records of v are at most the window apart (in whole minutes)
AllWithinOneWindow(v) ==
    \A a, b \in 1..Len(v) :
        AbsDiff(v[a].timestamp, v[b].timestamp) \div SecondsPerMinute
            <= detector.time_window_minutes

\* C1: a user with exactly 2 x threshold FAILED records that are all within
\* one window of each other gets exactly one failed-login finding, not two.
C1_OneFindingForDoubleCluster ==
    pc = "done" =>
        \A u \in UsersIn(entries) :
            LET failed == OnlyStatus(OnlyUser(entries, u), "FAILED")
            IN  (/\ Len(failed) = 2 * detector.failed_login_threshold
                 /\ AllWithinOneWindow(failed))
                => Len(EventsOf(failed_logins, u)) = 1

C1_Witness ==
    /\ pc = "done"
    /\ detector.failed_login_threshold >= 2
    /\ Len(entries) = 2 * detector.failed_login_threshold
    /\ AllWithinOneWindow(entries)
    /\ Len(failed_logins) = 1
    /\ failed_logins[1].event_count = 2 * detector.failed_login_threshold

\* C2: a user with exactly threshold - 1 FAILED records inside the window gets
\* no failed-login finding; with one more FAILED record exactly the window
\* size after the first, the user gets exactly one finding, of count threshold.
C2_ThresholdAtWindowBoundary ==
    pc = "done" =>
        \A u \in UsersIn(entries) :
            LET failed == OnlyStatus(OnlyUser(entries, u), "FAILED")
                n      == Len(failed)
                t      == detector.failed_login_threshold
                window == detector.time_window_minutes * SecondsPerMinute
                inside(k) == /\ failed[k].timestamp >= failed[1].timestamp
                             /\ failed[k].timestamp <= failed[1].timestamp + window
            IN  /\ (n = t - 1 /\ \A k \in 1..n : inside(k))
                    => EventsOf(failed_logins, u) = <<>>
                /\ (/\ n = t
                    /\ n >= 2
                    /\ \A k \in 1..(n - 1) : inside(k)
                    /\ failed[n].timestamp = failed[1].timestamp + window)
                    => /\ Len(EventsOf(failed_logins, u)) = 1
                       /\ EventsOf(failed_logins, u)[1].event_count = t

C2_Witness ==
    /\ pc = "done"
    /\ detector.failed_login_threshold = 5
    /\ detector.time_window_minutes = 10
    /\ Len(entries) = 5
    /\ entries[5].timestamp = entries[1].timestamp + 10 * SecondsPerMinute
    /\ Len(failed_logins) = 1
    /\ failed_logins[1].event_count = 5

\* the example scenario: threshold 5, window 10 minutes, FAILED records of
\* "alice" at minute offsets 0..6 from a base timestamp
AliceScenario ==
    /\ detector.failed_login_threshold = 5
    /\ detector.time_window_minutes = 10
    /\ Len(entries) = 7
    /\ \A k \in 1..7 :
          entries[k] = LogEntry(entries[1].timestamp + (k - 1) * SecondsPerMinute,
                                Alice, entries[1].ip_address, "FAILED")

\* C3 as stated: the scenario yields exactly one finding with count 6,
\* spanning offsets 0 to 6.
C3_CountSix ==
    (pc = "done" /\ AliceScenario) =>
        /\ Len(failed_logins) = 1
        /\ failed_logins[1].event_count = 6
        /\ failed_logins[1].first_occurrence = entries[1].timestamp
        /\ failed_logins[1].last_occurrence = entries[7].timestamp

\* C3 (amended): the scenario yields exactly one finding with count 7 (one per
\* record at offsets 0,1,2,3,4,5,6), spanning offsets 0 to 6.
C3_CountSeven ==
    (pc = "done" /\ AliceScenario) =>
        /\ Len(failed_logins) = 1
        /\ failed_logins[1].username = Alice
        /\ failed_logins[1].event_count = 7
        /\ failed_logins[1].first_occurrence = entries[1].timestamp
        /\ failed_logins[1].last_occurrence = entries[7].timestamp

C3_Witness == pc = "done" /\ AliceScenario /\ Len(failed_logins) = 1

\* C4: each detector's output depends only on the records that pass its
\* outcome filter: dropping every non-FAILED record leaves the failed-login
\* findings unchanged, dropping every non-SUCCESS record leaves the after-hours
\* and the multiple-address findings unchanged.
C4_OutcomeFilter ==
    pc = "done" =>
        /\ failed_logins = detectMultipleFailedLogins(OnlyStatus(entries, "FAILED"))
        /\ outside_hours = detectLoginsOutsideBusinessHours(OnlyStatus(entries, "SUCCESS"))
        /\ multiple_ips = detectMultipleIPAddresses(OnlyStatus(entries, "SUCCESS"))

\* a cluster of two FAILED records with a record of another outcome of the
\* same user between them in the input, inside the cluster's time span
C4_Witness ==
    /\ pc = "done"
    /\ Len(entries) = 3
    /\ entries[1].status = "FAILED"
    /\ entries[2].status # "FAILED"
    /\ entries[3].status = "FAILED"
    /\ entries[2].username = entries[1].username
    /\ Len(failed_logins) = 1
    /\ failed_logins[1].event_count = 2
    /\ failed_logins[1].first_occurrence < failed_logins[1].last_occurrence
    /\ entries[2].timestamp >= failed_logins[1].first_occurrence
    /\ entries[2].timestamp <= failed_logins[1].last_occurrence

\* C7: for the failed-login and the multiple-address detector, the findings
\* that carry username u are those the detector returns on the records of u
\* alone (usernames compared exactly, case included).
C7_PerUserIndependence ==
    pc = "done" =>
        \A u \in UsersIn(entries) :
            /\ EventsOf(failed_logins, u)
                  = detectMultipleFailedLogins(OnlyUser(entries, u))
            /\ EventsOf(multiple_ips, u)
                  = detectMultipleIPAddresses(OnlyUser(entries, u))

\* a multiple-address finding of one user, with a successful login of the other
\* user inside its time span from one of its addresses
C7_Witness ==
    /\ pc = "done"
    /\ \E k \in 1..Len(multiple_ips) : \E n \in 1..Len(entries) :
          /\ entries[n].username # multiple_ips[k].username
          /\ entries[n].status = "SUCCESS"
          /\ entries[n].timestamp >= multiple_ips[k].first_occurrence
          /\ entries[n].timestamp <= multiple_ips[k].last_occurrence
          /\ \E a \in 1..Len(multiple_ips[k].ip_addresses) :
                multiple_ips[k].ip_addresses[a] = entries[n].ip_address

\* the place of a kind in detectAll's output
KindRank(type) ==
    CASE type = "MULTIPLE_FAILED_LOGINS" -> 1
      [] type = "LOGIN_OUTSIDE_BUSINESS_HOURS" -> 2
      [] type = "MULTIPLE_IP_ADDRESSES" -> 3

\* C9: detectAll returns the failed-login findings, then the after-hours
\* findings, then the multiple-address findings of the same input: nothing is
\* dropped, merged or de-duplicated, and the kinds appear in that order.
C9_DetectAllConcatenates ==
    pc = "done" =>
        /\ all_events = detectMultipleFailedLogins(entries)
                        \o detectLoginsOutsideBusinessHours(entries)
                        \o detectMultipleIPAddresses(entries)
        /\ Len(all_events) = Len(detectMultipleFailedLogins(entries))
                             + Len(detectLoginsOutsideBusinessHours(entries))
                             + Len(detectMultipleIPAddresses(entries))
        /\ \A a, b \in 1..Len(all_events) :
              a < b => KindRank(all_events[a].type) <= KindRank(all_events[b].type)

\* all three kinds are present
C9_Witness ==
    /\ pc = "done"
    /\ {all_events[k].type : k \in 1..Len(all_events)} = SuspiciousEventType

\* the hour of the local day a timestamp falls in
LocalHour(ts) == ((ts + utc_offset) % SecondsPerDay) \div SecondsPerHour

\* the SUCCESS records outside the half-open interval [start, end)
LoginsOutsideHours ==
    SelectSeq(entries, LAMBDA e :
        /\ e.status = "SUCCESS"
        /\ \/ LocalHour(e.timestamp) < detector.business_hour_start
           \/ LocalHour(e.timestamp) >= detector.business_hour_end)

\* C5: the after-hours findings are, in input order, one per SUCCESS record
\* whose local hour is < business_hour_start or >= business_hour_end, and
\* nothing else; each has first = last = the record's timestamp and count 1.
C5_OutsideBusinessHours ==
    pc = "done" =>
        /\ Len(outside_hours) = Len(LoginsOutsideHours)
        /\ \A k \in 1..Len(outside_hours) :
              LET f == outside_hours[k]
                  e == LoginsOutsideHours[k]
              IN  /\ f.type = "LOGIN_OUTSIDE_BUSINESS_HOURS"
                  /\ f.username = e.username
                  /\ f.ip_addresses = <<e.ip_address>>
                  /\ f.first_occurrence = e.timestamp
                  /\ f.last_occurrence = e.timestamp
                  /\ f.event_count = 1

\* a success at hour == end (flagged), a success at hour == end - 1 (not
\* flagged) and a failure at hour == end (not flagged)
C5_Witness ==
    /\ pc = "done"
    /\ Len(entries) = 3
    /\ entries[1].status = "SUCCESS"
    /\ LocalHour(entries[1].timestamp) = detector.business_hour_end - 1
    /\ entries[2].status = "FAILED"
    /\ LocalHour(entries[2].timestamp) = detector.business_hour_end
    /\ entries[3].status = "SUCCESS"
    /\ LocalHour(entries[3].timestamp) = detector.business_hour_end
    /\ Len(outside_hours) = 1
    /\ outside_hours[1].first_occurrence = entries[3].timestamp

\* C6: two SUCCESS records of one user from two different addresses exactly
\* `window` minutes apart give exactly one finding, of count 2, with both
\* addresses; `window + 1` minutes apart they give no finding.
C6_TwoAddressesAtBoundary ==
    pc = "done" =>
        \A u \in UsersIn(entries) :
            LET logins == OnlyStatus(OnlyUser(entries, u), "SUCCESS")
                found  == EventsOf(multiple_ips, u)
                window == detector.time_window_minutes * SecondsPerMinute
                apart  == AbsDiff(logins[1].timestamp, logins[2].timestamp)
            IN  (Len(logins) = 2 /\ logins[1].ip_address # logins[2].ip_address)
                => /\ apart = window
                        => /\ Len(found) = 1
                           /\ found[1].event_count = 2
                           /\ {found[1].ip_addresses[a] :
                                 a \in 1..Len(found[1].ip_addresses)}
                                = {logins[1].ip_address, logins[2].ip_address}
                   /\ apart = window + SecondsPerMinute => found = <<>>

C6_Witness ==
    /\ pc = "done"
    /\ Len(entries) = 2
    /\ entries[1].ip_address # entries[2].ip_address
    /\ AbsDiff(entries[1].timestamp, entries[2].timestamp)
          = detector.time_window_minutes * SecondsPerMinute
    /\ Len(multiple_ips) = 1

\* the addresses of the SUCCESS records of f's user inside f's time span
AddressesInSpan(f) ==
    {entries[n].ip_address :
        n \in {m \in 1..Len(entries) :
                  /\ entries[m].username = f.username
                  /\ entries[m].status = "SUCCESS"
                  /\ entries[m].timestamp >= f.first_occurrence
                  /\ entries[m].timestamp <= f.last_occurrence}}

\* C8: every multiple-address finding lists the distinct addresses of the
\* records in its window, without duplicates, in ascending text order, at
\* least two of them, and its event_count is the number of addresses listed.
C8_DistinctSortedAddresses ==
    pc = "done" =>
        \A k \in 1..Len(multiple_ips) :
            LET f   == multiple_ips[k]
                ips == f.ip_addresses
            IN  /\ Len(ips) >= 2
                /\ \A a, b \in 1..Len(ips) : a < b => StrLess(ips[a], ips[b])
                /\ {ips[a] : a \in 1..Len(ips)} = AddressesInSpan(f)
                /\ f.event_count = Len(ips)

\* three records in one window from two addresses: count 2, not 3
C8_Witness ==
    /\ pc = "done"
    /\ Len(entries) = 3
    /\ entries[1].ip_address = entries[3].ip_address
    /\ Len(multiple_ips) = 1
    /\ multiple_ips[1].event_count = 2
    /\ \A n \in 1..3 :
          /\ entries[n].timestamp >= multiple_ips[1].first_occurrence
          /\ entries[n].timestamp <= multiple_ips[1].last_occurrence

\* C10: two timestamps are within the window iff their absolute difference,
\* truncated to whole minutes, is <= time_window_minutes: the test is
\* symmetric, a difference of up to `window` minutes 59 seconds is within, a
\* difference of `window + 1` minutes or more is not.
C10_TruncatedInclusiveWindow ==
    \A a, b \in 1..Len(entries) :
        LET t1     == entries[a].timestamp
            t2     == entries[b].timestamp
            apart  == AbsDiff(t1, t2)
            window == detector.time_window_minutes * SecondsPerMinute
        IN  /\ isWithinTimeWindow(t1, t2) = isWithinTimeWindow(t2, t1)
            /\ isWithinTimeWindow(t1, t2)
                  <=> (apart \div SecondsPerMinute <= detector.time_window_minutes)
            /\ apart = window => isWithinTimeWindow(t1, t2)
            /\ apart <= window + 59 => isWithinTimeWindow(t1, t2)
            /\ apart >= window + SecondsPerMinute => ~isWithinTimeWindow(t1, t2)

\* two logins from different addresses `window` minutes 59 seconds apart,
\* reported as one finding
C10_Witness ==
    /\ pc = "done"
    /\ Len(entries) = 2
    /\ entries[1].ip_address # entries[2].ip_address
    /\ entries[1].timestamp - entries[2].timestamp
          = detector.time_window_minutes * SecondsPerMinute + 59
    /\ Len(multiple_ips) = 1

\* C12: empty input to detectMultipleFailedLogins,
\* detectLoginsOutsideBusinessHours, detectMultipleIPAddresses or detectAll
\* yields an empty output sequence, under every detector configuration.
C12_EmptyInputEmptyOutput ==
    /\ detectMultipleFailedLogins(<<>>) = <<>>
    /\ detectLoginsOutsideBusinessHours(<<>>) = <<>>
    /\ detectMultipleIPAddresses(<<>>) = <<>>
    /\ detectAll(<<>>) = <<>>
    /\ (pc = "done" /\ entries = <<>>) =>
          /\ failed_logins = <<>>
          /\ outside_hours = <<>>
          /\ multiple_ips = <<>>
          /\ all_events = <<>>

\* detectAll has returned on an empty vector
C12_Witness == pc = "done" /\ entries = <<>>

\* the calls detectAll still has to make or finish
ScanPhase ==
    CASE pc = "load" -> 5
      [] pc = "detectMultipleFailedLogins" -> 4
      [] pc = "detectLoginsOutsideBusinessHours" -> 3
      [] pc = "detectMultipleIPAddresses" -> 2
      [] pc = "combine" -> 1
      [] pc = "done" -> 0

\* what is left of the running call: the calls, the users of the map and the
\* iterations of the innermost running loop
ScanRank ==
    IF pc \in AnchorLoops
    THEN <<ScanPhase, Len(frame.users), Len(frame.logins) + 1 - frame.i>>
    ELSE IF pc = "detectLoginsOutsideBusinessHours"
    THEN <<ScanPhase, 0, Len(entries) + 1 - frame.i>>
    ELSE <<ScanPhase, 0, 0>>

\* lexicographic order on triples
LexLess(a, b) ==
    \/ a[1] < b[1]
    \/ a[1] = b[1] /\ a[2] < b[2]
    \/ a[1] = b[1] /\ a[2] = b[2] /\ a[3] < b[3]

\* the detectAll call is running
Scanning == pc \notin {"load", "done"}

\* the anchor loop is about to run an iteration
AnchorIteration == pc \in AnchorLoops /\ frame.i <= Len(frame.logins)

\* what every step of a running detectAll call does
C11_Step ==
    /\ Scanning => ENABLED ScanStep
    /\ Scanning =>
          /\ LexLess(ScanRank', ScanRank)
          /\ \A k \in 1..3 : ScanRank'[k] >= 0
    /\ AnchorIteration =>
          /\ pc' = pc
          /\ frame'.logins = frame.logins
          /\ frame'.i > frame.i
          /\ frame'.i <= Len(frame.logins) + 1

\* C11: for any finite input (the empty one included) and any valid
\* configuration, detectAll and the three detectors it calls terminate and
\* return findings without an error: a running call can always take a step,
\* every step strictly lowers a rank that is bounded below (calls left, users
\* left, iterations left), and every iteration of an anchor loop strictly
\* advances the anchor i, also when it ends with i = window_end_idx.
C11_DetectionTerminates == [][C11_Step]_vars

\* three failed logins of alice 0, 1 and 3 minutes into the day under
\* threshold 2: the first anchor finds a cluster of two and skips ahead, the
\* loop goes on with the third record, and the call returns what the
\* detectors compute in one go
C11_Witness ==
    /\ pc = "done"
    /\ detector.failed_login_threshold = 2
    /\ Len(entries) = 3
    /\ \A k \in 1..3 : entries[k].username = Alice /\ entries[k].status = "FAILED"
    /\ {entries[k].timestamp : k \in 1..3} = {0, 60, 180}
    /\ Len(failed_logins) = 1
    /\ failed_logins[1].event_count = 2
    /\ all_events = detectAll(entries)

\* the ranges a configuration has to be in: threshold > 0, window > 0,
\* 0 <= business_hour_start < business_hour_end <= 23, non-empty file paths
ValidRanges(c) ==
    /\ c.failed_login_threshold > 0
    /\ c.time_window_minutes > 0
    /\ 0 <= c.business_hour_start
    /\ c.business_hour_start < c.business_hour_end
    /\ c.business_hour_end <= 23
    /\ c.log_file_path # <<>>
    /\ c.report_output_path # <<>>

\* C13: after any sequence of parseCommandLineArgs and setConfiguration
\* calls, successful or failed, the configuration getConfiguration returns has
\* threshold > 0, window > 0, 0 <= business_hour_start < business_hour_end
\* <= 23 and non-empty file paths.
C13_ConfigurationAlwaysValid == ValidRanges(config_manager.config_)

\* C14: setConfiguration(c) returns true and leaves c as the configuration
\* if c passes validation; otherwise it returns false and the configuration
\* is exactly what it was before the call.
C14_SetValidatesBeforeSetting ==
    call.op = "setConfiguration" =>
        IF validateConfiguration(call.config)
        THEN call.returned /\ config_manager.config_ = call.config
        ELSE ~call.returned /\ config_manager.config_ = call.temp

\* a rejected configuration after an earlier call had replaced the default
\* one: the earlier configuration is back
C14_Witness ==
    /\ call.op = "setConfiguration"
    /\ call.number = 2
    /\ ~call.returned
    /\ call.temp # DefaultConfiguration
    /\ call.config # call.temp
    /\ config_manager.config_ = call.temp

\* C15: validateConfiguration returns true iff failed_login_threshold > 0,
\* time_window_minutes > 0, both hours are in [0, 23], business_hour_start <
\* business_hour_end and both file paths are non-empty; the default
\* configuration (5, 10, 8, 18, default paths) is valid.
C15_ValidateIffInRanges ==
    /\ DefaultConfiguration
          = Configuration(5, 10, 8, 18, DefaultLogFilePath, DefaultReportOutputPath)
    /\ validateConfiguration(DefaultConfiguration)
    /\ validateConfiguration(config_manager.config_)
          <=> ValidRanges(config_manager.config_)
    /\ call.op = "validateConfiguration" =>
          (call.returned <=> ValidRanges(config_manager.config_))
    /\ call.op = "setConfiguration" =>
          /\ call.returned <=> ValidRanges(call.config)
          /\ validateConfiguration(call.config) <=> ValidRanges(call.config)
          /\ ValidRanges(call.config) <=>
                /\ call.config.failed_login_threshold > 0
                /\ call.config.time_window_minutes > 0
                /\ call.config.business_hour_start \in 0..23
                /\ call.config.business_hour_end \in 0..23
                /\ call.config.business_hour_start < call.config.business_hour_end
                /\ call.config.log_file_path # <<>>
                /\ call.config.report_output_path # <<>>

\* a configuration that is in range but for start = end has been rejected
C15_Witness ==
    /\ call.op = "setConfiguration"
    /\ ~call.returned
    /\ call.config.business_hour_start = call.config.business_hour_end
    /\ ValidRanges([call.config EXCEPT !.business_hour_end = 23])

\* the options that take a value
ValueOptions == OptInput \cup OptOutput \cup OptThreshold \cup OptWindow \cup OptHours

\* the text of an integer: digits, after an optional minus sign
IsIntegerText(str) ==
    LET digits == IF str # <<>> /\ str[1] = Minus THEN Tail(str) ELSE str
    IN  digits # <<>> /\ \A k \in 1..Len(digits) : IsDigit(digits[k])

\* the decimal text of a number below 100
Decimal(n) ==
    IF n < 10 THEN <<Digit0 + n>>
    ELSE <<Digit0 + (n \div 10), Digit0 + (n % 10)>>

\* the texts start-end with 0 <= start < end <= 23
HourRanges ==
    UNION {{Decimal(start) \o <<Minus>> \o Decimal(end) : end \in (start + 1)..23} :
              start \in 0..23}

\* the option at position i, taken with its value, is not acceptable
BadOption(args, i) ==
    \/ args[i] \notin ValueOptions
    \/ i = Len(args)
    \/ args[i] \in OptThreshold \cup OptWindow /\ ~IsIntegerText(args[i + 1])
    \/ args[i] \in OptHours /\ args[i + 1] \notin HourRanges

\* from position i on, an unacceptable option comes before any help flag
RECURSIVE BadArgumentBeforeHelp(_, _)
BadArgumentBeforeHelp(args, i) ==
    IF i > Len(args) THEN FALSE
    ELSE IF args[i] \in OptHelp THEN FALSE
    ELSE IF BadOption(args, i) THEN TRUE
    ELSE BadArgumentBeforeHelp(args, i + 2)

\* from position i on, every option is a help flag or acceptable
RECURSIVE AllWellFormed(_, _)
AllWellFormed(args, i) ==
    IF i > Len(args) THEN TRUE
    ELSE IF args[i] \in OptHelp THEN AllWellFormed(args, i + 1)
    ELSE IF BadOption(args, i) THEN FALSE
    ELSE AllWellFormed(args, i + 2)

\* from position i on, some option is a help flag
RECURSIVE HasHelpFlag(_, _)
HasHelpFlag(args, i) ==
    IF i > Len(args) THEN FALSE
    ELSE IF args[i] \in OptHelp THEN TRUE
    ELSE IF i = Len(args) THEN FALSE
    ELSE HasHelpFlag(args, i + 2)

\* C16 as stated: parseCommandLineArgs returns false whenever, before any
\* help flag, an argument is not a recognized option, a value-taking option is
\* the last argument, a --threshold/--window value is not an integer or a
\* --hours value is not start-end with 0 <= start < end <= 23; and whenever
\* all arguments are well-formed but the resulting configuration fails
\* validateConfiguration; it returns true with isHelpRequested() == false
\* only if the resulting configuration is valid.
C16_FalseOnInvalidArguments ==
    call.op = "parseCommandLineArgs" =>
        /\ BadArgumentBeforeHelp(argv, 1) => ~call.returned
        /\ (AllWellFormed(argv, 1) /\ ~validateConfiguration(config_manager.config_))
              => ~call.returned
        /\ (call.returned /\ ~config_manager.help_requested_)
              => validateConfiguration(config_manager.config_)

\* C16 amended: as C16, but a configuration that fails validateConfiguration
\* makes the call return false only when no help flag is among the
\* well-formed arguments; with a help flag the call returns true and
\* isHelpRequested() is true, whatever the configuration.
C16_FalseOnInvalidArgumentsUnlessHelp ==
    call.op = "parseCommandLineArgs" =>
        /\ BadArgumentBeforeHelp(argv, 1) => ~call.returned
        /\ (AllWellFormed(argv, 1) /\ ~HasHelpFlag(argv, 1)
             /\ ~validateConfiguration(config_manager.config_))
              => ~call.returned
        /\ (AllWellFormed(argv, 1) /\ HasHelpFlag(argv, 1))
              => call.returned /\ config_manager.help_requested_
        /\ (call.returned /\ ~config_manager.help_requested_)
              => validateConfiguration(config_manager.config_)

\* well-formed arguments without a help flag that leave an invalid
\* configuration: the call has returned false
C16_Witness ==
    /\ call.op = "parseCommandLineArgs"
    /\ argv # <<>>
    /\ AllWellFormed(argv, 1)
    /\ ~HasHelpFlag(argv, 1)
    /\ ~validateConfiguration(config_manager.config_)
    /\ ~call.returned

\* C17: in every run of main, for every command line, the EventDetector is
\* constructed and detectAll is invoked only with a configuration that has
\* threshold > 0, window > 0 and 0 <= business_hour_start <
\* business_hour_end <= 23.
C17_EngineSeesValidConfiguration ==
    /\ pc \in {"construct", "detect", "report"} =>
          /\ config_manager.config_.failed_login_threshold > 0
          /\ config_manager.config_.time_window_minutes > 0
          /\ 0 <= config_manager.config_.business_hour_start
          /\ config_manager.config_.business_hour_start
                < config_manager.config_.business_hour_end
          /\ config_manager.config_.business_hour_end <= 23
    /\ detector # NotConstructed =>
          /\ detector.failed_login_threshold > 0
          /\ detector.time_window_minutes > 0
          /\ 0 <= detector.business_hour_start
          /\ detector.business_hour_start < detector.business_hour_end
          /\ detector.business_hour_end <= 23
    /\ pc = "config" => detector = NotConstructed
    /\ (pc = "exit" /\ exit_code \in {ExitBadArguments, ExitNoLogFile}) =>
          detector = NotConstructed /\ all_events = <<>>

\* detectAll has run with a threshold given on the command line and has
\* returned a finding
C17_Witness ==
    /\ pc = "report"
    /\ argv # <<>>
    /\ detector.failed_login_threshold = 3
    /\ all_events # <<>>

\* the entries of the lines that parseLogLine accepts, in the order of the lines
RECURSIVE ParsedLines(_)
ParsedLines(lines) ==
    IF lines = <<>> THEN <<>>
    ELSE LET parsed == parseLogLine(Head(lines))
         IN  (IF parsed.has_value THEN <<parsed.value>> ELSE <<>>)
             \o ParsedLines(Tail(lines))

\* C18: the entries main passes to detectAll and to the report are exactly
\* the lines of the input file for which parseLogLine succeeds, in file
\* order, whatever the number and position of malformed or empty lines; a
\* malformed line never keeps a later valid line from being analyzed.
C18_BatchKeepsValidLines ==
    /\ pc \in {"read", "construct", "detect", "report"} =>
          /\ entries = ParsedLines(log_file)
          /\ line_number = Len(log_file)
          /\ invalid_entries
                = Cardinality({k \in 1..Len(log_file) :
                                 log_file[k] # <<>>
                                 /\ ~parseLogLine(log_file[k]).has_value})
    /\ pc = "report" => all_events = detectAll(ParsedLines(log_file))
    /\ (pc = "exit" /\ exit_code \in {ExitOk, ExitNoReport}
         /\ ~config_manager.help_requested_) =>
          /\ entries = ParsedLines(log_file)
          /\ all_events = detectAll(ParsedLines(log_file))

\* a file of a malformed line, an empty line and a valid line: the valid
\* line is the one entry that reaches the report
C18_Witness ==
    /\ pc = "report"
    /\ Len(log_file) = 3
    /\ log_file[1] # <<>> /\ ~parseLogLine(log_file[1]).has_value
    /\ log_file[2] = <<>>
    /\ parseLogLine(log_file[3]).has_value
    /\ entries = <<parseLogLine(log_file[3]).value>>

\* the pipe-separated fields of a line
RECURSIVE SplitFields(_)
SplitFields(text) ==
    LET pos == Find(text, Pipe)
    IN  IF pos = 0 THEN <<text>>
        ELSE <<SubSeq(text, 1, pos - 1)>>
             \o SplitFields(SubSeq(text, pos + 1, Len(text)))

\* C19: parseLogLine returns std::nullopt whenever the line does not contain
\* exactly 4 pipe-separated fields, whenever the timestamp cannot be parsed,
\* and whenever any required field is empty after trimming.
C19_RejectsMalformedLines ==
    pc = "parsed" =>
        LET fields == SplitFields(line)
        IN  ( \/ Len(fields) # 4
              \/ ~parseTimestamp(trim(fields[1])).has_value
              \/ \E k \in 1..Len(fields) : k <= 4 /\ trim(fields[k]) = <<>> )
            => ~entry_opt.has_value

\* C20: a line with more pipe-separated data after a well-formed status
\* field still parses: the result has a value, the extra data is ignored, and
\* the entry's status is the one named by the fourth field.
C20_ExtraDataIgnored ==
    pc = "parsed" =>
        LET fields == SplitFields(line)
        IN  ( /\ Len(fields) > 4
              /\ parseLogLine(fields[1] \o <<Pipe>> \o fields[2] \o <<Pipe>>
                              \o fields[3] \o <<Pipe>> \o fields[4]).has_value )
            => /\ entry_opt.has_value
               /\ entry_opt.value.status = parseStatus(trim(fields[4]))

\* C21: a line whose status is neither SUCCESS nor FAILED violates the log
\* file format and is skipped: no entry of unknown status is among the
\* entries main analyzes and counts in the report.
C21_InvalidStatusSkipped ==
    pc \in {"read", "construct", "detect", "report"} =>
        \A k \in 1..Len(entries) : entries[k].status \in {"SUCCESS", "FAILED"}

\* C22: for the same log entries and suspicious events, the text that
\* generateReportToFile writes to the file is identical to the text that
\* generateReport writes to a stream.
C22_FileMatchesStream ==
    \A path \in DOMAIN files : output # <<>> => files[path] = output

\* C23: generateReportToFile creates the parent directories of
\* output_filepath if they do not exist and then writes the report there,
\* returning true; it returns false only when the report could not be
\* written, that is, when the system does not permit it.
C23_CreatesParentDirectories ==
    call.op = "generateReportToFile" =>
        /\ DirectoryOf(call.output_filepath) \in directories \cup {<<>>}
        /\ call.permitted =>
              /\ call.returned
              /\ call.output_filepath \in DOMAIN files
              /\ files[call.output_filepath]
                    = generateReport(entries, all_events, call.clock)
        /\ ~call.returned => ~call.permitted

\* consecutive findings of one username lie strictly after one another
SpansDisjoint(events) ==
    \A j \in 1..Len(events), k \in 1..Len(events) :
        (j < k /\ events[j].username = events[k].username)
            => events[j].last_occurrence < events[k].first_occurrence

\* the records of v of one outcome and username with timestamp in [first, last]
RecordsInSpan(v, stat, user, first, last) ==
    SelectSeq(v, LAMBDA e : /\ e.status = stat /\ e.username = user
                            /\ first <= e.timestamp /\ e.timestamp <= last)

\* the records of v that lie in the span of more than one of the findings
InTwoSpans(v, stat, events) ==
    SelectSeq(v, LAMBDA e :
        /\ e.status = stat
        /\ Cardinality({k \in 1..Len(events) :
                           /\ events[k].username = e.username
                           /\ events[k].first_occurrence <= e.timestamp
                           /\ e.timestamp <= events[k].last_occurrence}) > 1)

\* C24: for each of detectMultipleFailedLogins and detectMultipleIPAddresses
\* and each username, no input record contributes to two findings: the
\* findings of one user have pairwise disjoint time spans, each
\* first_occurrence strictly later than the previous finding's
\* last_occurrence.
C24_NoOverlappingFindings ==
    pc = "done" =>
        /\ SpansDisjoint(failed_logins)
        /\ SpansDisjoint(multiple_ips)
        /\ InTwoSpans(entries, "FAILED", failed_logins) = <<>>
        /\ InTwoSpans(entries, "SUCCESS", multiple_ips) = <<>>

\* two findings of multiple addresses for one user, from four logins
C24_Witness ==
    /\ pc = "done"
    /\ Len(multiple_ips) = 2
    /\ multiple_ips[1].username = multiple_ips[2].username

\* the first record in input order that is FAILED, of the user, at the time
FirstFailedAt(v, user, ts) ==
    Head(SelectSeq(v, LAMBDA e : /\ e.status = "FAILED" /\ e.username = user
                                 /\ e.timestamp = ts))

\* C25: the sort within a user's group is stable with respect to input
\* order, so the address on a failed-login finding is the address of the
\* record that comes first in the input among the cluster's records of the
\* earliest timestamp, on every run.
C25_StableSortAddress ==
    pc = "done" =>
        \A k \in 1..Len(failed_logins) :
            failed_logins[k].ip_addresses
                = <<FirstFailedAt(entries, failed_logins[k].username,
                                  failed_logins[k].first_occurrence).ip_address>>

\* C26: every finding of detectMultipleFailedLogins has event_count >=
\* failed_login_threshold, first_occurrence <= last_occurrence, a span of at
\* most time_window_minutes whole minutes, and event_count equal to the
\* number of FAILED input records of its username with timestamp in
\* [first_occurrence, last_occurrence].
C26_FailedFindingInvariants ==
    pc = "done" =>
        \A k \in 1..Len(failed_logins) :
            LET f == failed_logins[k]
            IN  /\ f.event_count >= detector.failed_login_threshold
                /\ f.first_occurrence <= f.last_occurrence
                /\ (f.last_occurrence - f.first_occurrence) \div SecondsPerMinute
                      <= detector.time_window_minutes
                /\ f.event_count
                      = Len(RecordsInSpan(entries, "FAILED", f.username,
                                          f.first_occurrence, f.last_occurrence))

\* a finding of more records than the threshold, two of them at one time
C26_Witness ==
    /\ pc = "done"
    /\ \E k \in 1..Len(failed_logins) :
          /\ failed_logins[k].event_count > detector.failed_login_threshold
          /\ failed_logins[k].first_occurrence < failed_logins[k].last_occurrence
          /\ \E m \in 1..Len(entries) - 1 :
                /\ entries[m].status = "FAILED" /\ entries[m + 1].status = "FAILED"
                /\ entries[m].timestamp = entries[m + 1].timestamp

\* record k of v is FAILED and at least the threshold of FAILED records of
\* its user, itself included, lie at or after it and within its window
OpensFullWindow(v, k) ==
    /\ v[k].status = "FAILED"
    /\ Cardinality({j \in 1..Len(v) :
                       /\ v[j].status = "FAILED"
                       /\ v[j].username = v[k].username
                       /\ v[j].timestamp >= v[k].timestamp
                       /\ (v[j].timestamp - v[k].timestamp) \div SecondsPerMinute
                             <= detector.time_window_minutes})
          >= detector.failed_login_threshold

\* C27: for every FAILED record r such that at least failed_login_threshold
\* FAILED records of its user lie at or after r and within the window of r,
\* detectMultipleFailedLogins returns a finding of that user whose span
\* contains r's timestamp; a user has no finding iff no such record exists.
C27_GreedyScanComplete ==
    pc = "done" =>
        /\ \A k \in 1..Len(entries) :
              OpensFullWindow(entries, k) =>
                  \E n \in 1..Len(failed_logins) :
                      /\ failed_logins[n].username = entries[k].username
                      /\ failed_logins[n].first_occurrence <= entries[k].timestamp
                      /\ entries[k].timestamp <= failed_logins[n].last_occurrence
        /\ (failed_logins = <<>>)
              <=> ~\E k \in 1..Len(entries) : OpensFullWindow(entries, k)

\* a record after an emitted cluster opens a full window of its own, and a
\* record in between does not
C27_Witness ==
    /\ pc = "done"
    /\ Len(failed_logins) = 2
    /\ \E k \in 1..Len(entries) :
          entries[k].status = "FAILED" /\ ~OpensFullWindow(entries, k)

\* v's elements in the order p, a permutation of its indices
Permuted(v, p) == [k \in 1..Len(v) |-> v[p[k]]]

\* no two records of one user in v share a timestamp
DistinctTimes(v) ==
    \A j \in 1..Len(v), k \in 1..Len(v) :
        (j # k /\ v[j].username = v[k].username) => v[j].timestamp # v[k].timestamp

\* C28: for an input in which no two records of one user share a timestamp,
\* detectMultipleFailedLogins and detectMultipleIPAddresses return the same
\* sequence of findings for every permutation of the input records.
C28_InputOrderIrrelevant ==
    (pc = "done" /\ DistinctTimes(entries)) =>
        \A p \in Permutations(1..Len(entries)) :
            /\ detectMultipleFailedLogins(Permuted(entries, p)) = failed_logins
            /\ detectMultipleIPAddresses(Permuted(entries, p)) = multiple_ips

\* four records at four times with a finding of either kind
C28_Witness ==
    /\ pc = "done"
    /\ Len(entries) = 4
    /\ DistinctTimes(entries)
    /\ failed_logins # <<>>
    /\ multiple_ips # <<>>

\* a comes before b byte by byte: a is a proper prefix of b, or a has the
\* smaller byte where they first differ
BytesBefore(a, b) ==
    \E n \in 0..Len(a) :
        /\ n <= Len(b)
        /\ SubSeq(a, 1, n) = SubSeq(b, 1, n)
        /\ \/ n = Len(a) /\ n < Len(b)
           \/ n < Len(a) /\ n < Len(b) /\ a[n + 1] < b[n + 1]

\* findings grouped by username in ascending byte order, and in strictly
\* ascending first_occurrence within a username
GroupedAndAscending(events) ==
    \A j \in 1..Len(events), k \in 1..Len(events) :
        j < k =>
            \/ BytesBefore(events[j].username, events[k].username)
            \/ /\ events[j].username = events[k].username
               /\ events[j].first_occurrence < events[k].first_occurrence

C30_LastHourAlwaysFlagged ==
    /\ validateConfiguration(config_manager.config_)
    /\ detector.business_hour_end <= 23
    /\ pc = "done" =>
          \A k \in 1..Len(entries) :
              ( /\ entries[k].status = "SUCCESS"
                /\ \/ LocalHour(entries[k].timestamp) = 23
                   \/ LocalHour(entries[k].timestamp) < detector.business_hour_start
                   \/ LocalHour(entries[k].timestamp) >= detector.business_hour_end )
              => \E n \in 1..Len(outside_hours) :
                     /\ outside_hours[n].type = "LOGIN_OUTSIDE_BUSINESS_HOURS"
                     /\ outside_hours[n].username = entries[k].username
                     /\ outside_hours[n].first_occurrence = entries[k].timestamp

\* business hours that end at 23, the latest a valid configuration allows,
\* and a successful login at 23:00 that is flagged
C30_Witness ==
    /\ pc = "done"
    /\ detector.business_hour_start = 0
    /\ detector.business_hour_end = 23
    /\ Len(entries) = 1
    /\ entries[1].status = "SUCCESS"
    /\ LocalHour(entries[1].timestamp) = 23
    /\ Len(outside_hours) = 1

====
